---------------------------- MODULE Spec2Model ----------------------------
(***************************************************************************)
(* Piecewise nearest-feature distance cards of the Gradiverse catalog:     *)
(*   PS2  point-segment distance in 2D                                     *)
(*   PT2  point-triangle(-boundary) distance in 2D                         *)
(*   SS2  segment-segment distance in 2D                                   *)
(*   PT3  point-triangle distance in 3D                                    *)
(*                                                                         *)
(* Numbers.  Coordinates are drawn from an integer grid whose unit is one  *)
(* half of a coordinate unit (so (0.5, 2.0) is the grid point (1, 4)).     *)
(* On such inputs the differences, products and sums of the code are exact *)
(* in double precision, and the model keeps every derived quantity exact:  *)
(*   - a projection parameter t is the pair <<tNum, tDen>>, t = tNum/tDen, *)
(*   - a distance d is kept as its square, the pair <<n, m>>, d^2 = n/m,   *)
(*   - a gradient g is kept as integer numerators over a common divisor,   *)
(*     g[i] = gradNum[i] / (gradDen * sqrt(gradRad)).                      *)
(* The thresholds 1e-10 (segment norm, normal norm, distance) and the tie  *)
(* margin 1e-8 are far below the smallest positive value these quantities  *)
(* take on the bounded grid (a squared norm is an integer, two different   *)
(* candidate distances differ by more than 1e-4), so `x <= 1e-10` is       *)
(* x <= 0 and `|d1 - d2| <= 1e-8` is d1 = d2.  The branch margin 1e-5 is   *)
(* kept exactly as the rational 1 / BRANCH_MARGIN_INVERSE.                 *)
(*                                                                         *)
(* Non-finite numbers.  A coordinate that is NaN is the value NaN below, a  *)
(* number no coordinate and no squared distance of the grid takes.  The    *)
(* operators that can meet it (the finiteness guard, the 3D card, whose    *)
(* triangle parameters are not guarded, and the comparisons of distances)  *)
(* treat it as IEEE arithmetic does: every result computed from a NaN is   *)
(* NaN and every comparison with a NaN is false.  An infinite vertex       *)
(* coordinate ends the same way: the projection parameter of an edge is    *)
(* then Infinity/Infinity or NaN/Infinity, and the unit normal holds       *)
(* Infinity * 0.                                                           *)
(*                                                                         *)
(* Errors.  The code throws Error objects; the model returns the thrown    *)
(* condition in an `err` field ("" when nothing was thrown) and every      *)
(* caller forwards the first error in the code's evaluation order.         *)
(***************************************************************************)
EXTENDS Integers, Sequences, FiniteSets, TLC

VARIABLES card, op, input, parameters, outcome, pc, sampler, earlier, runner

\* The state of one value/grad/hess/hvp call; `sampler` is the state of one
\* domain.sample call, `earlier` one call of the past with its result and
\* `runner` the state of one run of the catalog check runner.
callVars == <<card, op, input, parameters, outcome, pc>>

vars == <<card, op, input, parameters, outcome, pc, sampler, earlier, runner>>

(* ----------------------------- bounds --------------------------------- *)

\* 2D grid coordinates range over 0..MaxCoord (half units).
MaxCoord == 2

\* 3D query points range over 0..MaxCoord3 in each coordinate.
MaxCoord3 == 4

\* domain.sample is called with seeds -1..MaxSeed.
MaxSeed == 6

\* domain.sample is called with sample counts -1..MaxSamples.
MaxSamples == 2

(* --------------------------- error names ------------------------------ *)

InvalidInput == "InvalidInput"

DegenerateGeometry == "DegenerateGeometry"

SingularDistance == "SingularDistance"

BranchBoundary == "BranchBoundary"

NonUniqueBranch == "NonUniqueBranch"

OutsideInterior == "OutsideInterior"

(* --------------------------- arithmetic ------------------------------- *)

\* A non-finite coordinate (see the header).
NaN == -99

Abs(x) == IF x < 0 THEN -x ELSE x

Sign(x) == IF x > 0 THEN 1 ELSE IF x < 0 THEN -1 ELSE 0

\* d1 < d2 for distances kept as squares p = <<n, m>> with m > 0.
\* n1/m1 < n2/m2 is decided on the integer parts and then on the remainders.
DistLess(p, q) ==
  IF p[1] = NaN \/ q[1] = NaN THEN FALSE
  ELSE IF (p[1] \div p[2]) # (q[1] \div q[2]) THEN (p[1] \div p[2]) < (q[1] \div q[2])
  ELSE (p[1] % p[2]) * q[2] < (q[1] % q[2]) * p[2]

\* |d1 - d2| <= CANDIDATE_TIE_MARGIN for distances kept as squares.
DistTied(p, q) ==
  IF p[1] = NaN \/ q[1] = NaN THEN FALSE
  ELSE /\ (p[1] \div p[2]) = (q[1] \div q[2])
       /\ (p[1] % p[2]) * q[2] = (q[1] % q[2]) * p[2]

\* d <= MINIMUM_DISTANCE_THRESHOLD for a distance kept as its square.
DistAtMostThreshold(p) == p[1] <= 0

\* 1 / BRANCH_MARGIN
BRANCH_MARGIN_INVERSE == 100000

IsFinite(x) == x # NaN

assertFiniteValues(inputVector) ==
  IF \A i \in 1..Len(inputVector) : IsFinite(inputVector[i]) THEN "" ELSE InvalidInput

\* The margin guard with its second test (|t - 1| <= BRANCH_MARGIN) left out.
assertProjectionBoundaryMargin_OnlyAtZero(tNum, tDen) ==
  IF Abs(tNum) * BRANCH_MARGIN_INVERSE <= tDen THEN BranchBoundary ELSE ""

\* Shared guard of all 2D cards: |t| <= BRANCH_MARGIN, then |t - 1| <= BRANCH_MARGIN.
assertProjectionBoundaryMargin(tNum, tDen) ==
  IF Abs(tNum) * BRANCH_MARGIN_INVERSE <= tDen THEN BranchBoundary
  ELSE IF Abs(tNum - tDen) * BRANCH_MARGIN_INVERSE <= tDen THEN BranchBoundary
  ELSE ""

Zero6 == <<0, 0, 0, 0, 0, 0>>

(* ------------------- the samplers' random generator -------------------- *)

\* The generator state is an unsigned 32-bit integer, kept as the pair
\* <<high, low>> of its 16-bit halves: state = high * HALF_WORD + low.
HALF_WORD == 65536

LINEAR_CONGRUENTIAL_MULTIPLIER == 1664525

LINEAR_CONGRUENTIAL_INCREMENT == 1013904223

\* The generator with its state shared by all calls: a call goes on from
\* where the call before it stopped.
ToUint32_SharedState(seed) == sampler.currentSeed

\* seed >>> 0, for a 32-bit integer seed
ToUint32(seed) == <<(seed \div HALF_WORD) % HALF_WORD, seed % HALF_WORD>>

\* The update with the carry out of the low half dropped.
nextSeed_NoCarry(currentSeed) ==
  LET multiplierHigh == LINEAR_CONGRUENTIAL_MULTIPLIER \div HALF_WORD
      multiplierLow == LINEAR_CONGRUENTIAL_MULTIPLIER % HALF_WORD
      low == multiplierLow * currentSeed[2] + (LINEAR_CONGRUENTIAL_INCREMENT % HALF_WORD)
      high == multiplierHigh * currentSeed[2] + multiplierLow * currentSeed[1]
                + (LINEAR_CONGRUENTIAL_INCREMENT \div HALF_WORD)
  IN <<high % HALF_WORD, low % HALF_WORD>>

\* (MULTIPLIER * currentSeed + INCREMENT) % 2^32, multiplied out by halves
nextSeed(currentSeed) ==
  LET multiplierHigh == LINEAR_CONGRUENTIAL_MULTIPLIER \div HALF_WORD
      multiplierLow == LINEAR_CONGRUENTIAL_MULTIPLIER % HALF_WORD
      low == multiplierLow * currentSeed[2] + (LINEAR_CONGRUENTIAL_INCREMENT % HALF_WORD)
      high == multiplierHigh * currentSeed[2] + multiplierLow * currentSeed[1]
                + (LINEAR_CONGRUENTIAL_INCREMENT \div HALF_WORD) + (low \div HALF_WORD)
  IN <<high % HALF_WORD, low % HALF_WORD>>

\* The generator states of the next n draws, in the order they are drawn; each
\* state is computed once and the next draw goes on from it.
RECURSIVE DrawStates(_, _)
DrawStates(currentSeed, n) ==
  IF n = 0 THEN <<>>
  ELSE CHOOSE states \in
         { <<next>> \o DrawStates(next, n - 1) : next \in {nextSeed(currentSeed)} } : TRUE

\* The draws are kept to the third of [0, 1) that randomUnitValue lies in:
\* floor(3 * currentSeed / 2^32).
DRAW_LEVELS == 3

UniformLevel(currentSeed) ==
  (DRAW_LEVELS * currentSeed[1] + (DRAW_LEVELS * currentSeed[2]) \div HALF_WORD)
    \div HALF_WORD

\* sampleUniformValue: DOMAIN_LOWER_BOUND + (UPPER - LOWER) * randomUnitValue,
\* with randomUnitValue at the middle of its third, so the draw is one of
\* -third, 0, +third where `third` is a third of the domain's width.
sampleUniformValue(third, currentSeed) == (UniformLevel(currentSeed) - 1) * third

\* The values of the next n draws.
Draws(third, currentSeed, n) ==
  [k \in 1..n |-> sampleUniformValue(third, DrawStates(currentSeed, n)[k])]

(* ------------------------- result records ----------------------------- *)

NoOutcome ==
  [kind |-> "none", error |-> "", distSq |-> <<0, 1>>,
   gradNum |-> <<>>, gradDen |-> 1, gradRad |-> 1, index |-> 0]

Raise(e) ==
  [kind |-> "error", error |-> e, distSq |-> <<0, 1>>,
   gradNum |-> <<>>, gradDen |-> 1, gradRad |-> 1, index |-> 0]

\* A result cache that is not keyed by the input: value hands out the distance
\* it returned last.
ReturnValue_Cached(distSq, index) ==
  IF op = "value" /\ outcome.kind = "ok" THEN outcome
  ELSE [kind |-> "ok", error |-> "", distSq |-> distSq,
        gradNum |-> <<>>, gradDen |-> 1, gradRad |-> 1, index |-> index]

ReturnValue(distSq, index) ==
  [kind |-> "ok", error |-> "", distSq |-> distSq,
   gradNum |-> <<>>, gradDen |-> 1, gradRad |-> 1, index |-> index]

ReturnGradient(gradNum, gradDen, gradRad, index) ==
  [kind |-> "ok", error |-> "", distSq |-> <<0, 1>>,
   gradNum |-> gradNum, gradDen |-> gradDen, gradRad |-> gradRad, index |-> index]

(* ------------------- hess and hvp of the four cards ------------------- *)

\* hvp answering with a zero vector instead of throwing.
hvp_SilentZero == ReturnGradient(<<0, 0, 0>>, 1, 1, 0)

\* Each of the four cards exports the same two functions: they take no
\* argument and throw.
hess == Raise("hess is not implemented.")

hvp == Raise("hvp is not implemented.")

(* ---------------- PS2: point-segment distance in 2D ------------------- *)

PS2_decomposeGeometry(inputVector) ==
  LET pointX == inputVector[1]
      pointY == inputVector[2]
      segmentAX == inputVector[3]
      segmentAY == inputVector[4]
      segmentBX == inputVector[5]
      segmentBY == inputVector[6]
      segmentDirectionX == segmentBX - segmentAX
      segmentDirectionY == segmentBY - segmentAY
      pointFromAX == pointX - segmentAX
      pointFromAY == pointY - segmentAY
  IN [pointX |-> pointX, pointY |-> pointY,
      segmentAX |-> segmentAX, segmentAY |-> segmentAY,
      segmentBX |-> segmentBX, segmentBY |-> segmentBY,
      segmentDirectionX |-> segmentDirectionX,
      segmentDirectionY |-> segmentDirectionY,
      pointFromAX |-> pointFromAX, pointFromAY |-> pointFromAY,
      pointFromBX |-> pointX - segmentBX, pointFromBY |-> pointY - segmentBY,
      segmentDirectionNormSquared |->
        segmentDirectionX * segmentDirectionX + segmentDirectionY * segmentDirectionY,
      \* projectionParameter = tNum / segmentDirectionNormSquared
      tNum |-> pointFromAX * segmentDirectionX + pointFromAY * segmentDirectionY,
      signedAreaNumerator |->
        segmentDirectionX * pointFromAY - segmentDirectionY * pointFromAX]

\* The classification without the far-endpoint branch.
PS2_classifyBranch_NoEndpointB(tNum, tDen) ==
  IF tNum <= 0 THEN 1 ELSE 3

\* 1 = "endpoint-a", 2 = "endpoint-b", 3 = "interior"
PS2_classifyBranch(tNum, tDen) ==
  IF tNum <= 0 THEN 1 ELSE IF tNum >= tDen THEN 2 ELSE 3

PS2_assertSegmentIsValid(segmentDirectionNormSquared) ==
  IF segmentDirectionNormSquared <= 0 THEN DegenerateGeometry ELSE ""

PS2_pointLineDistanceValue(geometry) ==
  <<geometry.signedAreaNumerator * geometry.signedAreaNumerator,
    geometry.segmentDirectionNormSquared>>

PS2_endpointDistanceValue(pointDifferenceX, pointDifferenceY) ==
  <<pointDifferenceX * pointDifferenceX + pointDifferenceY * pointDifferenceY, 1>>

PS2_assertDistanceDifferentiability(distSq) ==
  IF DistAtMostThreshold(distSq) THEN SingularDistance ELSE ""

\* The interior gradient with the derivative of the segment length left out.
PS2_pointLineDistanceGradient_NoNormTerm(geometry) ==
  LET N == geometry.signedAreaNumerator
      V == geometry.segmentDirectionNormSquared
      signedAreaGradient ==
        <<-geometry.segmentDirectionY, geometry.segmentDirectionX,
          geometry.segmentBY - geometry.pointY, geometry.pointX - geometry.segmentBX,
          geometry.pointY - geometry.segmentAY, geometry.segmentAX - geometry.pointX>>
  IN IF PS2_assertDistanceDifferentiability(PS2_pointLineDistanceValue(geometry)) # ""
     THEN Raise(SingularDistance)
     ELSE ReturnGradient([i \in 1..6 |-> 2 * N * signedAreaGradient[i] * V],
                         2 * Abs(N) * V, V, 3)

PS2_pointLineDistanceGradient(geometry) ==
  LET pointLineDistance == PS2_pointLineDistanceValue(geometry)
      N == geometry.signedAreaNumerator
      V == geometry.segmentDirectionNormSquared
      signedAreaGradient ==
        <<-geometry.segmentDirectionY, geometry.segmentDirectionX,
          geometry.segmentBY - geometry.pointY, geometry.pointX - geometry.segmentBX,
          geometry.pointY - geometry.segmentAY, geometry.segmentAX - geometry.pointX>>
      segmentNormSquaredGradient ==
        <<0, 0, -2 * geometry.segmentDirectionX, -2 * geometry.segmentDirectionY,
          2 * geometry.segmentDirectionX, 2 * geometry.segmentDirectionY>>
      \* squaredDistanceGradient[i] = sqNum[i] / V^2, and the result is
      \* (0.5 / d) * squaredDistanceGradient[i] with d = |N| / sqrt(V).
      sqNum == [i \in 1..6 |->
                  2 * N * signedAreaGradient[i] * V - N * N * segmentNormSquaredGradient[i]]
  IN IF PS2_assertDistanceDifferentiability(pointLineDistance) # ""
     THEN Raise(SingularDistance)
     ELSE ReturnGradient(sqNum, 2 * Abs(N) * V, V, 3)

\* The endpoint gradient with respect to the query point alone.
PS2_endpointGradient_PointOnly(pointDifferenceX, pointDifferenceY, activeEndpoint) ==
  LET distanceValue == PS2_endpointDistanceValue(pointDifferenceX, pointDifferenceY)
  IN IF PS2_assertDistanceDifferentiability(distanceValue) # ""
     THEN Raise(SingularDistance)
     ELSE ReturnGradient(<<pointDifferenceX, pointDifferenceY, 0, 0, 0, 0>>,
                         1, distanceValue[1], IF activeEndpoint = "a" THEN 1 ELSE 2)

PS2_endpointGradient(pointDifferenceX, pointDifferenceY, activeEndpoint) ==
  LET distanceValue == PS2_endpointDistanceValue(pointDifferenceX, pointDifferenceY)
  IN IF PS2_assertDistanceDifferentiability(distanceValue) # ""
     THEN Raise(SingularDistance)
     ELSE IF activeEndpoint = "a"
     THEN ReturnGradient(<<pointDifferenceX, pointDifferenceY,
                           -pointDifferenceX, -pointDifferenceY, 0, 0>>,
                         1, distanceValue[1], 1)
     ELSE ReturnGradient(<<pointDifferenceX, pointDifferenceY, 0, 0,
                           -pointDifferenceX, -pointDifferenceY>>,
                         1, distanceValue[1], 2)

PS2_value(inputVector) ==
  LET geometry == PS2_decomposeGeometry(inputVector)
      branchKind == PS2_classifyBranch(geometry.tNum, geometry.segmentDirectionNormSquared)
  IN IF assertFiniteValues(inputVector) # "" THEN Raise(InvalidInput)
     ELSE IF PS2_assertSegmentIsValid(geometry.segmentDirectionNormSquared) # ""
     THEN Raise(DegenerateGeometry)
     ELSE IF branchKind = 1
     THEN ReturnValue(PS2_endpointDistanceValue(geometry.pointFromAX, geometry.pointFromAY), 1)
     ELSE IF branchKind = 2
     THEN ReturnValue(PS2_endpointDistanceValue(geometry.pointFromBX, geometry.pointFromBY), 2)
     ELSE ReturnValue(PS2_pointLineDistanceValue(geometry), 3)

PS2_grad(inputVector) ==
  LET geometry == PS2_decomposeGeometry(inputVector)
      branchKind == PS2_classifyBranch(geometry.tNum, geometry.segmentDirectionNormSquared)
  IN IF assertFiniteValues(inputVector) # "" THEN Raise(InvalidInput)
     ELSE IF PS2_assertSegmentIsValid(geometry.segmentDirectionNormSquared) # ""
     THEN Raise(DegenerateGeometry)
     ELSE IF assertProjectionBoundaryMargin(geometry.tNum,
                                            geometry.segmentDirectionNormSquared) # ""
     THEN Raise(BranchBoundary)
     ELSE IF branchKind = 1
     THEN PS2_endpointGradient(geometry.pointFromAX, geometry.pointFromAY, "a")
     ELSE IF branchKind = 2
     THEN PS2_endpointGradient(geometry.pointFromBX, geometry.pointFromBY, "b")
     ELSE PS2_pointLineDistanceGradient(geometry)

\* One pass of the loop of domain.sample, from its four draws u.  Sampler
\* coordinates of this card are in units of 1/60, where every term is whole:
\* a draw is -80, 0 or 80, DOMAIN_MINIMUM_SEGMENT_LENGTH is 18 and
\* DOMAIN_MINIMUM_DISTANCE is 3.
PS2_sampleInput(sampleIndex, u) ==
  LET branchSelector == sampleIndex % 3
      segmentAX == u[1]
      segmentAY == u[2]
      segmentDirectionX == 18 + Abs(u[3])
      segmentDirectionY == (3 * u[4]) \div 10
      segmentBX == segmentAX + segmentDirectionX
      segmentBY == segmentAY + segmentDirectionY
  IN IF branchSelector = 0
     THEN <<segmentAX - (segmentDirectionX \div 2), segmentAY + 3,
            segmentAX, segmentAY, segmentBX, segmentBY>>
     ELSE IF branchSelector = 1
     THEN <<segmentBX + (segmentDirectionX \div 2), segmentBY + 3,
            segmentAX, segmentAY, segmentBX, segmentBY>>
     ELSE <<segmentAX + (segmentDirectionX \div 2),
            segmentAY + (segmentDirectionY \div 2) + 3,
            segmentAX, segmentAY, segmentBX, segmentBY>>

(* ------------- shared record shapes of the compound cards ------------- *)

PointSegmentError(e) ==
  [err |-> e, distSq |-> <<0, 1>>, gradNum |-> Zero6, gradDen |-> 1, gradRad |-> 1,
   tNum |-> 0, tDen |-> 1]

CandidateError(e) ==
  [err |-> e, distSq |-> <<0, 1>>, gradNum |-> <<>>, gradDen |-> 1, gradRad |-> 1]

\* The error thrown while building a candidate list: the first one in order.
FirstError(candidates) ==
  IF \A i \in 1..Len(candidates) : candidates[i].err = "" THEN ""
  ELSE candidates[CHOOSE i \in 1..Len(candidates) :
                    /\ candidates[i].err # ""
                    /\ \A j \in 1..(i - 1) : candidates[j].err = ""].err

\* The loop `for candidateIndex = 1 .. length-1: if d[candidateIndex] < d[best]
\* then best = candidateIndex` over the first n candidates: since only a strictly
\* smaller distance replaces the best, it ends at the first index holding the
\* minimum.  (A NaN distance is only ever that of the first candidate, where
\* the loop starts and, no distance being smaller than NaN, stays.)
BestCandidateIndex(candidates, n) ==
  CHOOSE best \in 1..n :
    /\ \A j \in 1..n : ~DistLess(candidates[j].distSq, candidates[best].distSq)
    /\ \A j \in 1..(best - 1) : DistLess(candidates[best].distSq, candidates[j].distSq)

NearMinimumCount(candidates, bestDistSq) ==
  Cardinality({i \in 1..Len(candidates) : DistTied(candidates[i].distSq, bestDistSq)})

(* ------------- PT2: point-triangle distance in 2D --------------------- *)

PT2_assertPositiveDistance(distSq) ==
  IF DistAtMostThreshold(distSq) THEN SingularDistance ELSE ""

PT2_assertSegmentIsValid(segmentNormSquared) ==
  IF segmentNormSquared <= 0 THEN DegenerateGeometry ELSE ""

\* The scatter with edge CA laid out like the other edges (start before end).
PT2_mapPointSegmentGradientToTriangleGradient_StartFirst(g, edge) ==
  IF edge = "AB" THEN <<g[1], g[2], g[3], g[4], g[5], g[6], 0, 0>>
  ELSE IF edge = "BC" THEN <<g[1], g[2], 0, 0, g[3], g[4], g[5], g[6]>>
  ELSE <<g[1], g[2], g[3], g[4], 0, 0, g[5], g[6]>>

PT2_mapPointSegmentGradientToTriangleGradient(g, edge) ==
  IF edge = "AB" THEN <<g[1], g[2], g[3], g[4], g[5], g[6], 0, 0>>
  ELSE IF edge = "BC" THEN <<g[1], g[2], 0, 0, g[3], g[4], g[5], g[6]>>
  ELSE <<g[1], g[2], g[5], g[6], 0, 0, g[3], g[4]>>

PT2_pointSegmentDistanceAndGradient(pointX, pointY, segmentAX, segmentAY, segmentBX, segmentBY) ==
  LET directionX == segmentBX - segmentAX
      directionY == segmentBY - segmentAY
      segmentNormSquared == directionX * directionX + directionY * directionY
      pointFromAX == pointX - segmentAX
      pointFromAY == pointY - segmentAY
      \* projectionParameter = tNum / segmentNormSquared
      tNum == pointFromAX * directionX + pointFromAY * directionY
      pointFromBX == pointX - segmentBX
      pointFromBY == pointY - segmentBY
      distA == <<pointFromAX * pointFromAX + pointFromAY * pointFromAY, 1>>
      distB == <<pointFromBX * pointFromBX + pointFromBY * pointFromBY, 1>>
      signedAreaNumerator == directionX * pointFromAY - directionY * pointFromAX
      distI == <<signedAreaNumerator * signedAreaNumerator, segmentNormSquared>>
      signedAreaGradient ==
        <<-directionY, directionX, segmentBY - pointY, pointX - segmentBX,
          pointY - segmentAY, segmentAX - pointX>>
      segmentNormSquaredGradient ==
        <<0, 0, -2 * directionX, -2 * directionY, 2 * directionX, 2 * directionY>>
      signValue == Sign(signedAreaNumerator)
      \* over the common divisor 2 * V * sqrt(V), V = segmentNormSquared:
      \*   firstTerm[i]  = sign * (1/sqrt(V)) * gradN[i]        = firstNum[i]  / (2 V sqrt(V))
      \*   secondTerm[i] = 0.5 * |N| * (1/(V sqrt(V))) * gradV[i] = secondNum[i] / (2 V sqrt(V))
      firstNum == [i \in 1..6 |-> 2 * segmentNormSquared * signValue * signedAreaGradient[i]]
      secondNum == [i \in 1..6 |-> Abs(signedAreaNumerator) * segmentNormSquaredGradient[i]]
  IN IF PT2_assertSegmentIsValid(segmentNormSquared) # ""
     THEN PointSegmentError(DegenerateGeometry)
     ELSE IF tNum <= 0
     THEN IF PT2_assertPositiveDistance(distA) # ""
          THEN PointSegmentError(SingularDistance)
          ELSE [err |-> "", distSq |-> distA,
                gradNum |-> <<pointFromAX, pointFromAY, -pointFromAX, -pointFromAY, 0, 0>>,
                gradDen |-> 1, gradRad |-> distA[1],
                tNum |-> tNum, tDen |-> segmentNormSquared]
     ELSE IF tNum >= segmentNormSquared
     THEN IF PT2_assertPositiveDistance(distB) # ""
          THEN PointSegmentError(SingularDistance)
          ELSE [err |-> "", distSq |-> distB,
                gradNum |-> <<pointFromBX, pointFromBY, 0, 0, -pointFromBX, -pointFromBY>>,
                gradDen |-> 1, gradRad |-> distB[1],
                tNum |-> tNum, tDen |-> segmentNormSquared]
     ELSE IF PT2_assertPositiveDistance(distI) # ""
          THEN PointSegmentError(SingularDistance)
          ELSE [err |-> "", distSq |-> distI,
                gradNum |-> [i \in 1..6 |-> firstNum[i] - secondNum[i]],
                gradDen |-> 2 * segmentNormSquared, gradRad |-> segmentNormSquared,
                tNum |-> tNum, tDen |-> segmentNormSquared]

\* The selection with its unique-minimum guard left out.
PT2_selectUniqueMinimumCandidate_NoTieGuard(candidates) ==
  BestCandidateIndex(candidates, Len(candidates))

\* 0 where no candidate is selected (the unique-minimum guard throws).
PT2_selectUniqueMinimumCandidate(candidates) ==
  LET bestCandidateIndex == BestCandidateIndex(candidates, Len(candidates))
      bestDistanceValue == candidates[bestCandidateIndex].distSq
      nearMinimumCandidateCount == NearMinimumCount(candidates, bestDistanceValue)
  IN IF nearMinimumCandidateCount > 1 THEN 0 ELSE bestCandidateIndex

PT2_candidateFromEdge(edge, inputVector) ==
  LET pointSegmentResult ==
        IF edge = "AB"
        THEN PT2_pointSegmentDistanceAndGradient(inputVector[1], inputVector[2],
               inputVector[3], inputVector[4], inputVector[5], inputVector[6])
        ELSE IF edge = "BC"
        THEN PT2_pointSegmentDistanceAndGradient(inputVector[1], inputVector[2],
               inputVector[5], inputVector[6], inputVector[7], inputVector[8])
        ELSE PT2_pointSegmentDistanceAndGradient(inputVector[1], inputVector[2],
               inputVector[7], inputVector[8], inputVector[3], inputVector[4])
  IN IF pointSegmentResult.err # "" THEN CandidateError(pointSegmentResult.err)
     ELSE IF assertProjectionBoundaryMargin(pointSegmentResult.tNum,
                                            pointSegmentResult.tDen) # ""
     THEN CandidateError(BranchBoundary)
     ELSE [err |-> "", distSq |-> pointSegmentResult.distSq,
           gradNum |-> PT2_mapPointSegmentGradientToTriangleGradient(
                         pointSegmentResult.gradNum, edge),
           gradDen |-> pointSegmentResult.gradDen,
           gradRad |-> pointSegmentResult.gradRad]

PT2_candidates(inputVector) ==
  <<PT2_candidateFromEdge("AB", inputVector),
    PT2_candidateFromEdge("BC", inputVector),
    PT2_candidateFromEdge("CA", inputVector)>>

\* value with the plain minimum: ties between candidates are tolerated.
PT2_value_NoTieGuard(inputVector) ==
  LET candidates == PT2_candidates(inputVector)
      selected == PT2_selectUniqueMinimumCandidate_NoTieGuard(candidates)
  IN IF assertFiniteValues(inputVector) # "" THEN Raise(InvalidInput)
     ELSE IF FirstError(candidates) # "" THEN Raise(FirstError(candidates))
     ELSE ReturnValue(candidates[selected].distSq, selected)

PT2_value(inputVector) ==
  LET candidates == PT2_candidates(inputVector)
      selected == PT2_selectUniqueMinimumCandidate(candidates)
  IN IF assertFiniteValues(inputVector) # "" THEN Raise(InvalidInput)
     ELSE IF FirstError(candidates) # "" THEN Raise(FirstError(candidates))
     ELSE IF selected = 0 THEN Raise(NonUniqueBranch)
     ELSE ReturnValue(candidates[selected].distSq, selected)

PT2_grad(inputVector) ==
  LET candidates == PT2_candidates(inputVector)
      selected == PT2_selectUniqueMinimumCandidate(candidates)
  IN IF assertFiniteValues(inputVector) # "" THEN Raise(InvalidInput)
     ELSE IF FirstError(candidates) # "" THEN Raise(FirstError(candidates))
     ELSE IF selected = 0 THEN Raise(NonUniqueBranch)
     ELSE ReturnGradient(candidates[selected].gradNum, candidates[selected].gradDen,
                         candidates[selected].gradRad, selected)

\* One pass of the loop of domain.sample, from its six draws u.  Sampler
\* coordinates of this card are in units of 1/60: a draw is -80, 0 or 80,
\* DOMAIN_MINIMUM_TRIANGLE_EDGE_LENGTH is 18 and DOMAIN_MINIMUM_DISTANCE is 3.
PT2_sampleInput(sampleIndex, u) ==
  LET ax == u[1]
      ay == u[2]
      bx == ax + 18 + Abs(u[3])
      by == ay + (u[4] \div 5)
      cx == ax + (u[5] \div 5)
      cy == ay + 18 + Abs(u[6])
      branchSelector == sampleIndex % 3
  IN IF branchSelector = 0
     THEN <<(ax + bx) \div 2, ((ay + by) \div 2) + 3, ax, ay, bx, by, cx, cy>>
     ELSE IF branchSelector = 1
     THEN <<(bx + cx) \div 2, ((by + cy) \div 2) + 3, ax, ay, bx, by, cx, cy>>
     ELSE <<(cx + ax) \div 2, ((cy + ay) \div 2) + 3, ax, ay, bx, by, cx, cy>>

(* ------------- SS2: segment-segment distance in 2D -------------------- *)

SS2_assertSegmentIsValid(segmentStartX, segmentStartY, segmentEndX, segmentEndY) ==
  LET directionX == segmentEndX - segmentStartX
      directionY == segmentEndY - segmentStartY
      segmentNormSquared == directionX * directionX + directionY * directionY
  IN IF segmentNormSquared <= 0 THEN DegenerateGeometry ELSE ""

SS2_assertPositiveDistance(distSq) ==
  IF DistAtMostThreshold(distSq) THEN SingularDistance ELSE ""

SS2_orientation(pX, pY, qX, qY, rX, rY) ==
  (qX - pX) * (rY - pY) - (qY - pY) * (rX - pX)

\* The intersection test with touching and collinear configurations let in.
SS2_segmentsIntersect_NonStrict(inputVector) ==
  LET o1 == SS2_orientation(inputVector[1], inputVector[2], inputVector[3],
                            inputVector[4], inputVector[5], inputVector[6])
      o2 == SS2_orientation(inputVector[1], inputVector[2], inputVector[3],
                            inputVector[4], inputVector[7], inputVector[8])
      o3 == SS2_orientation(inputVector[5], inputVector[6], inputVector[7],
                            inputVector[8], inputVector[1], inputVector[2])
      o4 == SS2_orientation(inputVector[5], inputVector[6], inputVector[7],
                            inputVector[8], inputVector[3], inputVector[4])
  IN o1 * o2 <= 0 /\ o3 * o4 <= 0

SS2_segmentsIntersect(inputVector) ==
  LET o1 == SS2_orientation(inputVector[1], inputVector[2], inputVector[3],
                            inputVector[4], inputVector[5], inputVector[6])
      o2 == SS2_orientation(inputVector[1], inputVector[2], inputVector[3],
                            inputVector[4], inputVector[7], inputVector[8])
      o3 == SS2_orientation(inputVector[5], inputVector[6], inputVector[7],
                            inputVector[8], inputVector[1], inputVector[2])
      o4 == SS2_orientation(inputVector[5], inputVector[6], inputVector[7],
                            inputVector[8], inputVector[3], inputVector[4])
  IN o1 * o2 < 0 /\ o3 * o4 < 0

SS2_pointSegmentDistanceAndGradient(pointX, pointY, segmentAX, segmentAY, segmentBX, segmentBY) ==
  LET directionX == segmentBX - segmentAX
      directionY == segmentBY - segmentAY
      segmentNormSquared == directionX * directionX + directionY * directionY
      pointFromAX == pointX - segmentAX
      pointFromAY == pointY - segmentAY
      \* projectionParameter = tNum / segmentNormSquared
      tNum == pointFromAX * directionX + pointFromAY * directionY
      pointFromBX == pointX - segmentBX
      pointFromBY == pointY - segmentBY
      distA == <<pointFromAX * pointFromAX + pointFromAY * pointFromAY, 1>>
      distB == <<pointFromBX * pointFromBX + pointFromBY * pointFromBY, 1>>
      signedAreaNumerator == directionX * pointFromAY - directionY * pointFromAX
      distI == <<signedAreaNumerator * signedAreaNumerator, segmentNormSquared>>
      signedAreaGradient ==
        <<-directionY, directionX, segmentBY - pointY, pointX - segmentBX,
          pointY - segmentAY, segmentAX - pointX>>
      segmentNormSquaredGradient ==
        <<0, 0, -2 * directionX, -2 * directionY, 2 * directionX, 2 * directionY>>
      signValue == Sign(signedAreaNumerator)
      \* over the common divisor 2 * V * sqrt(V), V = segmentNormSquared:
      \*   firstTerm[i]  = sign * (1/sqrt(V)) * gradN[i]        = firstNum[i]  / (2 V sqrt(V))
      \*   secondTerm[i] = 0.5 * |N| * (1/(V sqrt(V))) * gradV[i] = secondNum[i] / (2 V sqrt(V))
      firstNum == [i \in 1..6 |-> 2 * segmentNormSquared * signValue * signedAreaGradient[i]]
      secondNum == [i \in 1..6 |-> Abs(signedAreaNumerator) * segmentNormSquaredGradient[i]]
  IN IF (IF segmentNormSquared <= 0 THEN DegenerateGeometry ELSE "") # ""
     THEN PointSegmentError(DegenerateGeometry)
     ELSE IF tNum <= 0
     THEN IF SS2_assertPositiveDistance(distA) # ""
          THEN PointSegmentError(SingularDistance)
          ELSE [err |-> "", distSq |-> distA,
                gradNum |-> <<pointFromAX, pointFromAY, -pointFromAX, -pointFromAY, 0, 0>>,
                gradDen |-> 1, gradRad |-> distA[1],
                tNum |-> tNum, tDen |-> segmentNormSquared]
     ELSE IF tNum >= segmentNormSquared
     THEN IF SS2_assertPositiveDistance(distB) # ""
          THEN PointSegmentError(SingularDistance)
          ELSE [err |-> "", distSq |-> distB,
                gradNum |-> <<pointFromBX, pointFromBY, 0, 0, -pointFromBX, -pointFromBY>>,
                gradDen |-> 1, gradRad |-> distB[1],
                tNum |-> tNum, tDen |-> segmentNormSquared]
     ELSE IF SS2_assertPositiveDistance(distI) # ""
          THEN PointSegmentError(SingularDistance)
          ELSE [err |-> "", distSq |-> distI,
                gradNum |-> [i \in 1..6 |-> firstNum[i] - secondNum[i]],
                gradDen |-> 2 * segmentNormSquared, gradRad |-> segmentNormSquared,
                tNum |-> tNum, tDen |-> segmentNormSquared]

\* 0 where no candidate is selected (the unique-minimum guard throws).
SS2_selectUniqueMinimumCandidate(candidates) ==
  LET bestCandidateIndex == BestCandidateIndex(candidates, Len(candidates))
      bestDistanceValue == candidates[bestCandidateIndex].distSq
      nearMinimumCount == NearMinimumCount(candidates, bestDistanceValue)
  IN IF nearMinimumCount > 1 THEN 0 ELSE bestCandidateIndex

SS2_selectMinimumCandidate(candidates) ==
  BestCandidateIndex(candidates, Len(candidates))

\* The tail of each candidateXToSegmentY: the margin guard, then the scatter of
\* the 6-component gradient into the 8-component layout given by `layout`.
SS2_candidate(pointSegmentResult, layout) ==
  IF pointSegmentResult.err # "" THEN CandidateError(pointSegmentResult.err)
  ELSE IF assertProjectionBoundaryMargin(pointSegmentResult.tNum,
                                         pointSegmentResult.tDen) # ""
  THEN CandidateError(BranchBoundary)
  ELSE [err |-> "", distSq |-> pointSegmentResult.distSq,
        gradNum |-> [i \in 1..8 |->
                       IF layout[i] = 0 THEN 0 ELSE pointSegmentResult.gradNum[layout[i]]],
        gradDen |-> pointSegmentResult.gradDen,
        gradRad |-> pointSegmentResult.gradRad]

SS2_candidateA0ToSegmentB(inputVector) ==
  SS2_candidate(
    SS2_pointSegmentDistanceAndGradient(inputVector[1], inputVector[2],
      inputVector[5], inputVector[6], inputVector[7], inputVector[8]),
    <<1, 2, 0, 0, 3, 4, 5, 6>>)

SS2_candidateA1ToSegmentB(inputVector) ==
  SS2_candidate(
    SS2_pointSegmentDistanceAndGradient(inputVector[3], inputVector[4],
      inputVector[5], inputVector[6], inputVector[7], inputVector[8]),
    <<0, 0, 1, 2, 3, 4, 5, 6>>)

SS2_candidateB0ToSegmentA(inputVector) ==
  SS2_candidate(
    SS2_pointSegmentDistanceAndGradient(inputVector[5], inputVector[6],
      inputVector[1], inputVector[2], inputVector[3], inputVector[4]),
    <<3, 4, 5, 6, 1, 2, 0, 0>>)

SS2_candidateB1ToSegmentA(inputVector) ==
  SS2_candidate(
    SS2_pointSegmentDistanceAndGradient(inputVector[7], inputVector[8],
      inputVector[1], inputVector[2], inputVector[3], inputVector[4]),
    <<3, 4, 5, 6, 0, 0, 1, 2>>)

SS2_buildCandidates(inputVector) ==
  <<SS2_candidateA0ToSegmentB(inputVector),
    SS2_candidateA1ToSegmentB(inputVector),
    SS2_candidateB0ToSegmentA(inputVector),
    SS2_candidateB1ToSegmentA(inputVector)>>

\* The guards value and grad run before the intersection test.
SS2_validate(inputVector) ==
  IF assertFiniteValues(inputVector) # "" THEN InvalidInput
  ELSE IF SS2_assertSegmentIsValid(inputVector[1], inputVector[2],
                                   inputVector[3], inputVector[4]) # ""
  THEN DegenerateGeometry
  ELSE SS2_assertSegmentIsValid(inputVector[5], inputVector[6],
                                inputVector[7], inputVector[8])

SS2_value(inputVector) ==
  LET candidates == SS2_buildCandidates(inputVector)
      selected == SS2_selectMinimumCandidate(candidates)
  IN IF SS2_validate(inputVector) # "" THEN Raise(SS2_validate(inputVector))
     ELSE IF SS2_segmentsIntersect(inputVector) THEN ReturnValue(<<0, 1>>, 0)
     ELSE IF FirstError(candidates) # "" THEN Raise(FirstError(candidates))
     ELSE ReturnValue(candidates[selected].distSq, selected)

SS2_grad(inputVector) ==
  LET candidates == SS2_buildCandidates(inputVector)
      selected == SS2_selectMinimumCandidate(candidates)
  IN IF SS2_validate(inputVector) # "" THEN Raise(SS2_validate(inputVector))
     ELSE IF SS2_segmentsIntersect(inputVector) THEN Raise(NonUniqueBranch)
     ELSE IF FirstError(candidates) # "" THEN Raise(FirstError(candidates))
     ELSE ReturnGradient(candidates[selected].gradNum, candidates[selected].gradDen,
                         candidates[selected].gradRad, selected)

\* The try block of one adjustment step of domain.sample: "" where it reaches
\* `break`, else what it threw.  buildCandidates runs once, after the
\* intersection test.
SS2_sampleAttempt(candidateInput) ==
  IF SS2_segmentsIntersect(candidateInput) THEN "intersect"
  ELSE CHOOSE thrown \in
         { IF FirstError(candidates) # "" THEN FirstError(candidates)
           ELSE IF SS2_selectUniqueMinimumCandidate(candidates) = 0 THEN NonUniqueBranch
           ELSE "" : candidates \in {SS2_buildCandidates(candidateInput)} } : TRUE

\* Sampler coordinates of this card are in units of 1/15: a draw is -20, 0 or
\* 20 and DOMAIN_MINIMUM_SEGMENT_LENGTH is 6; DOMAIN_SEPARATION_OFFSET (4.5
\* units) and the rise 0.35 of b1 (5.25 units) are rounded to 5.
SS2_firstCandidateInput(u) ==
  LET a0x == u[1]
      a0y == u[2]
      a1x == a0x + 6 + Abs(u[3])
      a1y == a0y + (u[4] \div 5)
      b0x == u[5]
      b0y == a0y + 5 + Abs(u[6])
      b1x == b0x + 6 + Abs(u[7])
      b1y == b0y + 5 + (u[8] \div 5)
  IN <<a0x, a0y, a1x, a1y, b0x, b0y, b1x, b1y>>

\* The nudge amounts of b0x, b0y, b1x, b1y (0.137, 0.071, 0.083, 0.059) in
\* units of 1/15, rounded to whole units.
SS2_NUDGE == <<2, 1, 1, 1>>

\* A catch block that nudges both segments.
SS2_adjust_BothSegments(candidateInput, adjustmentStep) ==
  [i \in 1..8 |->
     candidateInput[i] + SS2_NUDGE[((i - 1) % 4) + 1] * (adjustmentStep + 1)]

\* The catch block: b0 and b1 move by (adjustmentStep + 1) times the nudge.
SS2_adjust(candidateInput, adjustmentStep) ==
  [i \in 1..8 |->
     IF i <= 4 THEN candidateInput[i]
     ELSE candidateInput[i] + SS2_NUDGE[i - 4] * (adjustmentStep + 1)]

(* ------------- PT3: point-triangle distance in 3D --------------------- *)

\* DEFAULT_TRIANGLE_PARAMETERS in half units.
DEFAULT_TRIANGLE_PARAMETERS ==
  [vertexA |-> <<0, 0, 0>>, vertexB |-> <<2, 0, 0>>, vertexC |-> <<0, 2, 0>>]

subtractVectors(leftVector, rightVector) ==
  <<leftVector[1] - rightVector[1], leftVector[2] - rightVector[2],
    leftVector[3] - rightVector[3]>>

addVectors(leftVector, rightVector) ==
  <<leftVector[1] + rightVector[1], leftVector[2] + rightVector[2],
    leftVector[3] + rightVector[3]>>

scaleVector(vector, scalar) ==
  <<vector[1] * scalar, vector[2] * scalar, vector[3] * scalar>>

dotProduct(leftVector, rightVector) ==
  leftVector[1] * rightVector[1] + leftVector[2] * rightVector[2]
    + leftVector[3] * rightVector[3]

crossProduct(leftVector, rightVector) ==
  <<leftVector[2] * rightVector[3] - leftVector[3] * rightVector[2],
    leftVector[3] * rightVector[1] - leftVector[1] * rightVector[3],
    leftVector[1] * rightVector[2] - leftVector[2] * rightVector[1]>>

squaredNorm(vector) == dotProduct(vector, vector)

VectorIsFinite(vector) == \A i \in 1..3 : IsFinite(vector[i])

TriangleIsFinite(params) ==
  VectorIsFinite(params.vertexA) /\ VectorIsFinite(params.vertexB)
    /\ VectorIsFinite(params.vertexC)

\* A candidate computed from a NaN: its guards compare NaN with a threshold and
\* do not fire, its distance and its gradient are NaN.
NaNCandidate ==
  [err |-> "", distSq |-> <<NaN, 1>>, gradNum |-> <<NaN, NaN, NaN>>,
   gradDen |-> 1, gradRad |-> 1]

\* Each coordinate of a vertex enters two components of the normal, so with a
\* NaN coordinate squaredNorm(normalVector) is NaN and the guard does not fire.
PT3_assertTriangleIsValid(params) ==
  LET edgeAB == subtractVectors(params.vertexB, params.vertexA)
      edgeAC == subtractVectors(params.vertexC, params.vertexA)
      normalVector == crossProduct(edgeAB, edgeAC)
  IN IF ~TriangleIsFinite(params) THEN ""
     ELSE IF squaredNorm(normalVector) <= 0 THEN DegenerateGeometry ELSE ""

pointFromInput(inputVector) == <<inputVector[1], inputVector[2], inputVector[3]>>

Max(a, b) == IF a >= b THEN a ELSE b

Min(a, b) == IF a <= b THEN a ELSE b

\* The tail of pointSegmentDistanceAndPointGradient, from the distance guard on:
\* pointFromClosest = fromClosestNum / segmentDirectionNormSquared.
PT3_pointSegmentResult(segmentDirectionNormSquared, fromClosestNum, fromClosestNormSquared) ==
  IF segmentDirectionNormSquared <= 0 THEN CandidateError(DegenerateGeometry)
  ELSE IF DistAtMostThreshold(<<fromClosestNormSquared, 1>>)
  THEN CandidateError(SingularDistance)
  ELSE [err |-> "",
        distSq |-> <<fromClosestNormSquared,
                     segmentDirectionNormSquared * segmentDirectionNormSquared>>,
        \* pointFromClosest[i] * (1 / distanceValue)
        gradNum |-> fromClosestNum, gradDen |-> 1, gradRad |-> fromClosestNormSquared]

PT3_pointSegmentClosest(segmentDirectionNormSquared, fromClosestNum) ==
  PT3_pointSegmentResult(segmentDirectionNormSquared, fromClosestNum,
                         squaredNorm(fromClosestNum))

\* The closest point for the clamped projection parameter tNum / normSquared:
\* closestPoint = closestNum / normSquared, closestNum = start * normSquared + dir * tNum.
PT3_pointFromClosest(pointVector, segmentStart, segmentDirection, normSquared, tNum) ==
  subtractVectors(scaleVector(pointVector, normSquared),
                  addVectors(scaleVector(segmentStart, normSquared),
                             scaleVector(segmentDirection, tNum)))

PT3_pointSegmentAlong(pointVector, segmentStart, segmentDirection, normSquared, pointFromStart) ==
  PT3_pointSegmentClosest(normSquared,
    PT3_pointFromClosest(pointVector, segmentStart, segmentDirection, normSquared,
      \* projectionParameter = Math.max(0, Math.min(1, dot / normSquared))
      Max(0, Min(normSquared, dotProduct(pointFromStart, segmentDirection)))))

PT3_pointSegmentFrom(pointVector, segmentStart, segmentDirection) ==
  PT3_pointSegmentAlong(pointVector, segmentStart, segmentDirection,
                        squaredNorm(segmentDirection),
                        subtractVectors(pointVector, segmentStart))

PT3_pointSegmentDistanceAndPointGradient(pointVector, segmentStart, segmentEnd) ==
  IF ~VectorIsFinite(segmentStart) \/ ~VectorIsFinite(segmentEnd) THEN NaNCandidate
  ELSE PT3_pointSegmentFrom(pointVector, segmentStart,
                            subtractVectors(segmentEnd, segmentStart))

\* The barycentric test of interiorDistanceAndPointGradient, as exact numerators:
\* projectionVector = projectionNum / normalNormSquared, and
\* barycentricU = uNum / (normalNormSquared * barycentricDenominator), V, W likewise.
PT3_barycentric(edgeAB, edgeAC, normalNormSquared, projectionNum) ==
  LET dot00 == dotProduct(edgeAB, edgeAB)
      dot01 == dotProduct(edgeAB, edgeAC)
      dot11 == dotProduct(edgeAC, edgeAC)
      dot20Num == dotProduct(projectionNum, edgeAB)
      dot21Num == dotProduct(projectionNum, edgeAC)
  IN [uNum |-> dot11 * dot20Num - dot01 * dot21Num,
      vNum |-> dot00 * dot21Num - dot01 * dot20Num,
      scale |-> normalNormSquared * (dot00 * dot11 - dot01 * dot01)]

PT3_planeRecord(normalVector, normalNormSquared, normalDotPointFromA, bary) ==
  [normalVector |-> normalVector, normalNormSquared |-> normalNormSquared,
   normalDotPointFromA |-> normalDotPointFromA,
   uNum |-> bary.uNum, vNum |-> bary.vNum,
   wNum |-> bary.scale - bary.uNum - bary.vNum]

\* signedDistance = normalDotPointFromA / normalNorm
PT3_planeAt(edgeAB, edgeAC, pointFromA, normalVector, normalNormSquared, normalDotPointFromA) ==
  PT3_planeRecord(normalVector, normalNormSquared, normalDotPointFromA,
    PT3_barycentric(edgeAB, edgeAC, normalNormSquared,
      subtractVectors(scaleVector(pointFromA, normalNormSquared),
                      scaleVector(normalVector, normalDotPointFromA))))

PT3_planeWithNormal(edgeAB, edgeAC, pointFromA, normalVector) ==
  PT3_planeAt(edgeAB, edgeAC, pointFromA, normalVector, squaredNorm(normalVector),
              dotProduct(pointFromA, normalVector))

PT3_planeFrom(edgeAB, edgeAC, pointFromA) ==
  PT3_planeWithNormal(edgeAB, edgeAC, pointFromA, crossProduct(edgeAB, edgeAC))

\* The plane projection and the barycentric coordinates of
\* interiorDistanceAndPointGradient.
PT3_planeProjection(pointVector, params) ==
  PT3_planeFrom(subtractVectors(params.vertexB, params.vertexA),
                subtractVectors(params.vertexC, params.vertexA),
                subtractVectors(pointVector, params.vertexA))

PT3_interiorFromPlane(plane) ==
  IF plane.normalDotPointFromA = 0 THEN CandidateError(SingularDistance)
  ELSE IF plane.uNum < 0 \/ plane.vNum < 0 \/ plane.wNum < 0
  THEN CandidateError(OutsideInterior)
  ELSE [err |-> "",
        distSq |-> <<plane.normalDotPointFromA * plane.normalDotPointFromA,
                     plane.normalNormSquared>>,
        gradNum |-> scaleVector(plane.normalVector, Sign(plane.normalDotPointFromA)),
        gradDen |-> 1, gradRad |-> plane.normalNormSquared]

PT3_interiorDistanceAndPointGradient(pointVector, params) ==
  IF ~TriangleIsFinite(params) THEN NaNCandidate
  ELSE PT3_interiorFromPlane(PT3_planeProjection(pointVector, params))

\* The interior candidate pushed without the try block: what it threw stays in
\* the list and aborts the call.
PT3_optional_Uncaught(interior) == <<interior>>

\* try { push(interior) } catch { }: the interior candidate is kept only where
\* computing it threw nothing.
PT3_optional(interior) == IF interior.err = "" THEN <<interior>> ELSE <<>>

PT3_collectCandidates(pointVector, params) ==
  PT3_optional(PT3_interiorDistanceAndPointGradient(pointVector, params))
    \o <<PT3_pointSegmentDistanceAndPointGradient(pointVector, params.vertexA,
                                                  params.vertexB),
         PT3_pointSegmentDistanceAndPointGradient(pointVector, params.vertexB,
                                                  params.vertexC),
         PT3_pointSegmentDistanceAndPointGradient(pointVector, params.vertexC,
                                                  params.vertexA)>>

PT3_selectMinimumCandidate(candidates) ==
  BestCandidateIndex(candidates, Len(candidates))

\* Defined by the card and called by neither value nor grad.
PT3_assertUniqueMinimumCandidate(candidates) ==
  IF NearMinimumCount(candidates,
       candidates[PT3_selectMinimumCandidate(candidates)].distSq) > 1
  THEN NonUniqueBranch ELSE ""

PT3_returnValue(candidates, selected) ==
  ReturnValue(candidates[selected].distSq, selected)

PT3_returnGradient(candidates, selected) ==
  ReturnGradient(candidates[selected].gradNum, candidates[selected].gradDen,
                 candidates[selected].gradRad, selected)

PT3_valueOf(candidates) ==
  IF FirstError(candidates) # "" THEN Raise(FirstError(candidates))
  ELSE PT3_returnValue(candidates, PT3_selectMinimumCandidate(candidates))

PT3_gradOf(candidates) ==
  IF FirstError(candidates) # "" THEN Raise(FirstError(candidates))
  ELSE PT3_returnGradient(candidates, PT3_selectMinimumCandidate(candidates))

PT3_value(inputVector, params) ==
  IF assertFiniteValues(inputVector) # "" THEN Raise(InvalidInput)
  ELSE IF PT3_assertTriangleIsValid(params) # "" THEN Raise(DegenerateGeometry)
  ELSE PT3_valueOf(PT3_collectCandidates(pointFromInput(inputVector), params))

PT3_grad(inputVector, params) ==
  IF assertFiniteValues(inputVector) # "" THEN Raise(InvalidInput)
  ELSE IF PT3_assertTriangleIsValid(params) # "" THEN Raise(DegenerateGeometry)
  ELSE PT3_gradOf(PT3_collectCandidates(pointFromInput(inputVector), params))

(* ------------------------- inputs and state --------------------------- *)

Grid == 0..MaxCoord

\* No domain.sample call has been made.
SamplerIdle ==
  [pc |-> "idle", card |-> "PS2", seed |-> 0, sampleCount |-> 0, sampleIndex |-> 0,
   currentSeed |-> <<0, 0>>, candidateInput |-> <<>>, adjustmentStep |-> 0,
   sampledInputs |-> <<>>]

\* The report of the catalog check runner before it is written.
NoReport ==
  [written |-> FALSE, totalCheckCount |-> 0, passedCheckCount |-> 0,
   failedCheckCount |-> 0, entries |-> <<>>]

\* The catalog check runner is not running.
RunnerIdle ==
  [pc |-> "idle", files |-> {}, sortedTestFiles |-> <<>>, checkEntries |-> <<>>,
   failedTestCount |-> 0, report |-> NoReport, thrown |-> ""]

\* No earlier call is remembered.
NoEarlier == [kind |-> "none", call |-> <<>>, result |-> <<>>]

\* The triangle example (0.5, 2.0) against a=(0,0), b=(1,0), c=(0,1), in half units.
TriangleExample == <<1, 4, 0, 0, 2, 0, 0, 2>>

\* The parallel example [(0,0),(1,0)] and [(0,1),(1,1)], in half units.
ParallelExample == <<0, 0, 2, 0, 0, 2, 2, 2>>

\* The parallel example with its second segment translated by (0,-1).
OverlapExample == <<0, 0, 2, 0, 0, 0, 2, 0>>

\* The vectors that differ from `base` in one coordinate, which is NaN.
WithOneNaN(base) == {[base EXCEPT ![i] = NaN] : i \in 1..Len(base)}

PS2Inputs == [1..6 -> Grid] \cup WithOneNaN(<<1, 2, 0, 0, 2, 0>>)

PT2Inputs == [1..8 -> Grid] \cup {TriangleExample} \cup WithOneNaN(TriangleExample)

SS2Inputs ==
  [1..8 -> Grid] \cup {ParallelExample, OverlapExample} \cup WithOneNaN(ParallelExample)

PT3Inputs == [1..3 -> 0..MaxCoord3] \cup WithOneNaN(<<1, 1, 2>>)

\* The default triangle with one vertex coordinate NaN.
NonFiniteTriangles ==
  { [DEFAULT_TRIANGLE_PARAMETERS EXCEPT !.vertexC = <<NaN, 2, 0>>],
    [DEFAULT_TRIANGLE_PARAMETERS EXCEPT !.vertexA = <<0, 0, NaN>>] }

Triangles ==
  { DEFAULT_TRIANGLE_PARAMETERS,
    [vertexA |-> <<1, 1, 0>>, vertexB |-> <<4, 1, 0>>, vertexC |-> <<1, 4, 0>>],
    [vertexA |-> <<0, 0, 0>>, vertexB |-> <<4, 0, 0>>, vertexC |-> <<0, 2, 2>>],
    [vertexA |-> <<0, 0, 0>>, vertexB |-> <<1, 1, 1>>, vertexC |-> <<2, 2, 2>>],
    [vertexA |-> <<1, 1, 0>>, vertexB |-> <<1, 1, 0>>, vertexC |-> <<1, 4, 0>>] }
    \cup NonFiniteTriangles

Cards == {"PS2", "PT2", "SS2", "PT3"}

InputsOf(c) ==
  IF c = "PS2" THEN PS2Inputs
  ELSE IF c = "PT2" THEN PT2Inputs
  ELSE IF c = "SS2" THEN SS2Inputs
  ELSE PT3Inputs

\* A caller holds an input vector (and, for PT3, triangle parameters) and has
\* not called anything yet.
Init ==
  /\ card \in Cards
  /\ input \in InputsOf(card)
  /\ parameters \in (IF card = "PT3" THEN Triangles ELSE {DEFAULT_TRIANGLE_PARAMETERS})
  /\ op = "none"
  /\ outcome = NoOutcome
  /\ pc = "ready"
  /\ sampler = SamplerIdle
  /\ earlier = NoEarlier
  /\ runner = RunnerIdle

Call(c, o, result) ==
  /\ pc = "ready"
  /\ sampler.pc = "idle"
  /\ card = c
  /\ op' = o
  /\ outcome' = result
  /\ pc' = "done"
  /\ UNCHANGED <<card, input, parameters, sampler, earlier, runner>>

PS2Value == Call("PS2", "value", PS2_value(input))

PS2Grad == Call("PS2", "grad", PS2_grad(input))

PT2Value == Call("PT2", "value", PT2_value(input))

PT2Grad == Call("PT2", "grad", PT2_grad(input))

SS2Value == Call("SS2", "value", SS2_value(input))

SS2Grad == Call("SS2", "grad", SS2_grad(input))

PT3Value == Call("PT3", "value", PT3_value(input, parameters))

PT3Grad == Call("PT3", "grad", PT3_grad(input, parameters))

Hess == Call(card, "hess", hess)

Hvp == Call(card, "hvp", hvp)

Next ==
  \/ PS2Value
  \/ PS2Grad
  \/ PT2Value
  \/ PT2Grad
  \/ SS2Value
  \/ SS2Grad
  \/ PT3Value
  \/ PT3Grad

Spec == Init /\ [][Next]_vars

(* ------------------------- domain.sample ------------------------------ *)

\* A third of DOMAIN_UPPER_BOUND - DOMAIN_LOWER_BOUND in the sampler units of
\* card c: 4/3 in units of 1/60 or 1/15, and 3/3 in units of 1/15 (PT3).
DomainThird(c) ==
  IF c \in {"PS2", "PT2"} THEN 80 ELSE IF c = "SS2" THEN 20 ELSE 15

\* domain.sample(seed, sampleCount) of card c up to its loop over sampleIndex:
\* the sampleCount guard and the fresh locals sampledInputs and currentSeed.
SampleCallWith(c, seed, sampleCount) ==
  /\ pc = "ready"
  /\ sampler.pc = "idle"
  /\ sampler' = [pc |-> IF sampleCount < 0 THEN "raised" ELSE "loop",
                 card |-> c, seed |-> seed, sampleCount |-> sampleCount,
                 sampleIndex |-> 0, currentSeed |-> ToUint32(seed),
                 candidateInput |-> <<>>, adjustmentStep |-> 0,
                 sampledInputs |-> <<>>]
  /\ UNCHANGED <<callVars, earlier, runner>>

SampleCall ==
  \E c \in Cards, seed \in -1..MaxSeed, sampleCount \in -1..MaxSamples :
    SampleCallWith(c, seed, sampleCount)

\* One pass of a sampler loop that draws n values and pushes sampledInput.
SamplePass(c, n, sampledInput) ==
  /\ sampler.pc = "loop"
  /\ sampler.card = c
  /\ sampler.sampleIndex < sampler.sampleCount
  /\ sampler' = [sampler EXCEPT
                   !.sampledInputs = Append(@, sampledInput),
                   !.currentSeed = DrawStates(@, n)[n],
                   !.sampleIndex = @ + 1]
  /\ UNCHANGED <<callVars, earlier, runner>>

PS2Sample ==
  SamplePass("PS2", 4,
    PS2_sampleInput(sampler.sampleIndex, Draws(DomainThird("PS2"), sampler.currentSeed, 4)))

PT2Sample ==
  SamplePass("PT2", 6,
    PT2_sampleInput(sampler.sampleIndex, Draws(DomainThird("PT2"), sampler.currentSeed, 6)))

PT3Sample ==
  SamplePass("PT3", 3, Draws(DomainThird("PT3"), sampler.currentSeed, 3))

\* The eight draws of one sample of the segment-segment card and its first
\* candidateInput.
SS2SampleDraw ==
  /\ sampler.pc = "loop"
  /\ sampler.card = "SS2"
  /\ sampler.sampleIndex < sampler.sampleCount
  /\ sampler' = [sampler EXCEPT
                   !.candidateInput =
                     SS2_firstCandidateInput(Draws(DomainThird("SS2"), sampler.currentSeed, 8)),
                   !.currentSeed = DrawStates(@, 8)[8],
                   !.adjustmentStep = 0,
                   !.pc = "adjust"]
  /\ UNCHANGED <<callVars, earlier, runner>>

\* One adjustment step whose try block throws: the catch block nudges the
\* second segment.
SS2SampleAdjust ==
  /\ sampler.pc = "adjust"
  /\ sampler.adjustmentStep < 4
  /\ SS2_sampleAttempt(sampler.candidateInput) # ""
  /\ sampler' = [sampler EXCEPT
                   !.candidateInput = SS2_adjust(@, sampler.adjustmentStep),
                   !.adjustmentStep = @ + 1]
  /\ UNCHANGED <<callVars, earlier, runner>>

\* The adjustment loop ends, by `break` or with its four steps used up, and
\* candidateInput is pushed.
SS2SamplePush ==
  /\ sampler.pc = "adjust"
  /\ \/ sampler.adjustmentStep >= 4
     \/ sampler.adjustmentStep < 4 /\ SS2_sampleAttempt(sampler.candidateInput) = ""
  /\ sampler' = [sampler EXCEPT
                   !.sampledInputs = Append(@, sampler.candidateInput),
                   !.sampleIndex = @ + 1,
                   !.pc = "loop"]
  /\ UNCHANGED <<callVars, earlier, runner>>

SampleReturn ==
  /\ sampler.pc = "loop"
  /\ sampler.sampleIndex >= sampler.sampleCount
  /\ sampler' = [sampler EXCEPT !.pc = "returned"]
  /\ UNCHANGED <<callVars, earlier, runner>>

\* The arguments and the result of the domain.sample call that has ended.
SampleRecord ==
  [kind |-> "sample",
   call |-> <<sampler.card, sampler.seed, sampler.sampleCount>>,
   result |-> <<sampler.pc, sampler.sampledInputs>>]

\* The caller takes what domain.sample returned or threw, and may keep it to
\* compare a later call with.  The locals of the call are left as they were.
SampleFinish ==
  /\ sampler.pc \in {"returned", "raised"}
  /\ sampler' = [sampler EXCEPT !.pc = "idle"]
  /\ earlier' \in {earlier, SampleRecord}
  /\ UNCHANGED <<callVars, runner>>

\* A caller that only samples.
SamplerInit ==
  /\ card = "SS2"
  /\ input = ParallelExample
  /\ parameters = DEFAULT_TRIANGLE_PARAMETERS
  /\ op = "none"
  /\ outcome = NoOutcome
  /\ pc = "ready"
  /\ sampler = SamplerIdle
  /\ earlier = NoEarlier
  /\ runner = RunnerIdle

SamplerNext ==
  \/ SampleCall
  \/ PS2Sample
  \/ PT2Sample
  \/ PT3Sample
  \/ SS2SampleDraw
  \/ SS2SampleAdjust
  \/ SS2SamplePush
  \/ SampleReturn
  \/ SampleFinish

SamplerSpec == SamplerInit /\ [][SamplerNext]_vars

(* ------------------- a caller that makes many calls ------------------- *)

SessionInputs(c) ==
  IF c = "PS2" THEN {<<1, 2, 0, 0, 2, 0>>, <<0, 0, 0, 0, 2, 0>>, <<1, 2, 1, 1, 1, 1>>}
  ELSE IF c = "PT2" THEN {TriangleExample, <<1, 1, 0, 0, 2, 0, 0, 2>>, <<3, 1, 0, 0, 2, 0, 0, 2>>}
  ELSE IF c = "SS2" THEN {ParallelExample, OverlapExample, <<0, 0, 2, 1, 0, 2, 2, 2>>}
  ELSE {<<1, 1, 2>>, <<1, 1, 0>>, <<4, 0, 1>>}

SessionSampleCall ==
  \E c \in Cards, seed \in {-1, 2}, sampleCount \in {-1, 1} :
    SampleCallWith(c, seed, sampleCount)

\* The arguments and the result of the value/grad/hess/hvp call that has ended.
CallRecord ==
  [kind |-> op, call |-> <<card, input, parameters>>, result |-> outcome]

\* The caller takes what the call returned or threw, may keep it to compare a
\* later call with, and holds the input of its next call.
CallFinish ==
  /\ pc = "done"
  /\ pc' = "ready"
  /\ card' \in Cards
  /\ input' \in SessionInputs(card')
  /\ parameters' = DEFAULT_TRIANGLE_PARAMETERS
  /\ earlier' \in {earlier, CallRecord}
  /\ UNCHANGED <<op, outcome, sampler, runner>>

SessionInit ==
  /\ card \in Cards
  /\ input \in SessionInputs(card)
  /\ parameters = DEFAULT_TRIANGLE_PARAMETERS
  /\ op = "none"
  /\ outcome = NoOutcome
  /\ pc = "ready"
  /\ sampler = SamplerIdle
  /\ earlier = NoEarlier
  /\ runner = RunnerIdle

SessionNext ==
  \/ Next
  \/ Hess
  \/ Hvp
  \/ CallFinish
  \/ SessionSampleCall
  \/ PS2Sample
  \/ PT2Sample
  \/ PT3Sample
  \/ SS2SampleDraw
  \/ SS2SampleAdjust
  \/ SS2SamplePush
  \/ SampleReturn
  \/ SampleFinish

SessionSpec == SessionInit /\ [][SessionNext]_vars

(* --------------------- the catalog check runner ----------------------- *)

EXCLUDED_DIRECTORY_NAMES == {"templates"}

TEST_FILE_NAME == "test.ts"

\* The files a catalog may hold: paths relative to docs/catalog, as sequences
\* of names.
CatalogUniverse ==
  { <<"geometry", "line", "test.ts">>,
    <<"geometry", "point", "test.ts">>,
    <<"geometry", "point", "impl.ts">>,
    <<"geometry", "templates", "test.ts">>,
    <<"matrix", "test.ts">>,
    <<"templates", "card", "test.ts">> }

\* The names of CatalogUniverse in the order localeCompare gives them.
NAME_ORDER ==
  <<"card", "geometry", "impl.ts", "line", "matrix", "point", "templates", "test.ts">>

\* formatRelativePath(leftPath).localeCompare(formatRelativePath(rightPath)) < 0
PathBefore(leftPath, rightPath) ==
  LET shared == Min(Len(leftPath), Len(rightPath))
      differing == {i \in 1..shared : leftPath[i] # rightPath[i]}
      first == CHOOSE i \in differing : \A j \in differing : i <= j
      leftRank == CHOOSE i \in 1..Len(NAME_ORDER) : NAME_ORDER[i] = leftPath[first]
      rightRank == CHOOSE i \in 1..Len(NAME_ORDER) : NAME_ORDER[i] = rightPath[first]
  IN IF differing = {} THEN Len(leftPath) < Len(rightPath) ELSE leftRank < rightRank

\* The names readdir finds in currentDirectoryPath.
DirectoryEntries(files, currentDirectoryPath) ==
  LET depth == Len(currentDirectoryPath)
  IN {q[depth + 1] : q \in {f \in files : /\ Len(f) > depth
                                          /\ SubSeq(f, 1, depth) = currentDirectoryPath}}

IsDirectory(files, entryPath) ==
  \E f \in files : Len(f) > Len(entryPath) /\ SubSeq(f, 1, Len(entryPath)) = entryPath

\* collectTestFiles with no directory left out.
RECURSIVE collectTestFiles_NoExclusion(_, _)
collectTestFiles_NoExclusion(files, currentDirectoryPath) ==
  UNION { IF IsDirectory(files, Append(currentDirectoryPath, name))
          THEN collectTestFiles_NoExclusion(files, Append(currentDirectoryPath, name))
          ELSE IF name = TEST_FILE_NAME THEN {Append(currentDirectoryPath, name)}
          ELSE {} : name \in DirectoryEntries(files, currentDirectoryPath) }

\* The discovered test files; the order readdir lists them in is lost in the
\* sort that follows.
RECURSIVE collectTestFiles(_, _)
collectTestFiles(files, currentDirectoryPath) ==
  UNION { IF IsDirectory(files, Append(currentDirectoryPath, name))
          THEN IF name \in EXCLUDED_DIRECTORY_NAMES THEN {}
               ELSE collectTestFiles(files, Append(currentDirectoryPath, name))
          ELSE IF name = TEST_FILE_NAME THEN {Append(currentDirectoryPath, name)}
          ELSE {} : name \in DirectoryEntries(files, currentDirectoryPath) }

\* discoveredTestFiles.sort(...)
RECURSIVE sortedTestFiles(_)
sortedTestFiles(discoveredTestFiles) ==
  IF discoveredTestFiles = {} THEN <<>>
  ELSE LET firstPath == CHOOSE f \in discoveredTestFiles :
                          \A g \in discoveredTestFiles \ {f} : PathBefore(f, g)
       IN <<firstPath>> \o sortedTestFiles(discoveredTestFiles \ {firstPath})

\* The loop over sortedTestFiles that gives up at the first failed check.
LoopIsOver_StopAtFailure(r) ==
  r.failedTestCount > 0 \/ Len(r.checkEntries) >= Len(r.sortedTestFiles)

\* `for (const testFilePath of sortedTestFiles)` has visited every file; each
\* pass of the loop pushes one entry.
LoopIsOver(r) == Len(r.checkEntries) >= Len(r.sortedTestFiles)

\* runCatalogChecks up to its loop: discovery, sort and the guard against an
\* empty catalog.
RunnerDiscover ==
  /\ runner.pc = "start"
  /\ LET sorted == sortedTestFiles(collectTestFiles(runner.files, <<>>))
     IN runner' = [runner EXCEPT
                     !.sortedTestFiles = sorted,
                     !.pc = IF Len(sorted) = 0 THEN "failed" ELSE "loop",
                     !.thrown = IF Len(sorted) = 0 THEN "no test files" ELSE ""]
  /\ UNCHANGED <<callVars, sampler, earlier>>

\* One pass of the loop that pushes an entry (the card identifier, the spec
\* file path and the elapsed time of the entry are left out).
RunCheck(status, errorMessage) ==
  /\ runner.pc = "loop"
  /\ ~LoopIsOver(runner)
  /\ runner' = [runner EXCEPT
                  !.checkEntries =
                    Append(@, [testFilePath |-> runner.sortedTestFiles[Len(@) + 1],
                               status |-> status, errorMessage |-> errorMessage]),
                  !.failedTestCount = IF status = "FAIL" THEN @ + 1 ELSE @]
  /\ UNCHANGED <<callVars, sampler, earlier>>

\* check() returns (or its promise resolves).
CheckPasses == RunCheck("PASS", "null")

\* check() throws (or its promise rejects).
CheckThrows == RunCheck("FAIL", "error.message")

\* The module exports no function `check`.
CheckMissing == RunCheck("FAIL", "missing export: check")

\* `await import(...)` of the test module throws: it is outside the try
\* block, so runCatalogChecks ends here.
ImportFails ==
  /\ runner.pc = "loop"
  /\ ~LoopIsOver(runner)
  /\ runner' = [runner EXCEPT !.pc = "failed", !.thrown = "import"]
  /\ UNCHANGED <<callVars, sampler, earlier>>

WriteReport ==
  /\ runner.pc = "loop"
  /\ LoopIsOver(runner)
  /\ runner' = [runner EXCEPT
                  !.report =
                    [written |-> TRUE,
                     totalCheckCount |-> Len(runner.sortedTestFiles),
                     passedCheckCount |-> Len(runner.sortedTestFiles) - runner.failedTestCount,
                     failedCheckCount |-> runner.failedTestCount,
                     entries |-> runner.checkEntries],
                  !.pc = "reported"]
  /\ UNCHANGED <<callVars, sampler, earlier>>

\* After the report: the throw that fails the run, or the PASS lines.
RunnerFinish ==
  /\ runner.pc = "reported"
  /\ runner' = [runner EXCEPT
                  !.pc = IF runner.failedTestCount > 0 THEN "failed" ELSE "passed",
                  !.thrown = IF runner.failedTestCount > 0 THEN "checks failed" ELSE ""]
  /\ UNCHANGED <<callVars, sampler, earlier>>

RunnerInit ==
  /\ card = "PS2"
  /\ input = <<1, 2, 0, 0, 2, 0>>
  /\ parameters = DEFAULT_TRIANGLE_PARAMETERS
  /\ op = "none"
  /\ outcome = NoOutcome
  /\ pc = "ready"
  /\ sampler = SamplerIdle
  /\ earlier = NoEarlier
  /\ \E files \in SUBSET CatalogUniverse :
       runner = [RunnerIdle EXCEPT !.pc = "start", !.files = files]

RunnerNext ==
  \/ RunnerDiscover
  \/ CheckPasses
  \/ CheckThrows
  \/ CheckMissing
  \/ ImportFails
  \/ WriteReport
  \/ RunnerFinish

RunnerSpec == RunnerInit /\ [][RunnerNext]_vars

TypeOK ==
  /\ card \in Cards
  /\ op \in {"none", "value", "grad", "hess", "hvp"}
  /\ pc \in {"ready", "done"}
  /\ outcome.kind \in {"none", "ok", "error"}
  /\ (pc = "ready") = (outcome.kind = "none")

(* ---------------------- vocabulary of the claims ---------------------- *)

Done(c, o) == pc = "done" /\ card = c /\ op = o

SegmentNormSquared(v, i, j) ==
  (v[j] - v[i]) * (v[j] - v[i]) + (v[j + 1] - v[i + 1]) * (v[j + 1] - v[i + 1])

\* Twice the signed area of the 2D triangle a, b, c of a PT2 input.
DoubledArea(v) == (v[5] - v[3]) * (v[8] - v[4]) - (v[6] - v[4]) * (v[7] - v[3])

\* Every coordinate the current call consumes is finite.
FiniteCall ==
  assertFiniteValues(input) = "" /\ (card = "PT3" => TriangleIsFinite(parameters))

\* The primitive(s) of the current input are finite and structurally
\* non-degenerate.
NonDegenerate ==
  /\ FiniteCall
  /\ IF card = "PS2" THEN SegmentNormSquared(input, 3, 5) > 0
     ELSE IF card = "PT2"
     THEN /\ SegmentNormSquared(input, 3, 5) > 0
          /\ SegmentNormSquared(input, 5, 7) > 0
          /\ SegmentNormSquared(input, 7, 3) > 0
          /\ DoubledArea(input) # 0
     ELSE IF card = "SS2"
     THEN SegmentNormSquared(input, 1, 3) > 0 /\ SegmentNormSquared(input, 5, 7) > 0
     ELSE PT3_assertTriangleIsValid(parameters) = ""

\* The candidate list of the current input of a multi-candidate card.
CurrentCandidates ==
  IF card = "PT2" THEN PT2_candidates(input)
  ELSE IF card = "SS2" THEN SS2_buildCandidates(input)
  ELSE PT3_collectCandidates(pointFromInput(input), parameters)

\* Every candidate of the current input was built without a guard failing, and
\* two or more of them lie within the tie margin of the minimum.
TiedMinimum ==
  /\ FirstError(CurrentCandidates) = ""
  /\ NearMinimumCount(CurrentCandidates,
       CurrentCandidates[BestCandidateIndex(CurrentCandidates,
                                            Len(CurrentCandidates))].distSq) > 1

\* The current PT3 point lies on the triangle's plane and its projection is
\* strictly inside the triangle.
OnPlaneStrictlyInside ==
  LET plane == PT3_planeProjection(pointFromInput(input), parameters)
  IN /\ FiniteCall
     /\ PT3_assertTriangleIsValid(parameters) = ""
     /\ plane.normalDotPointFromA = 0
     /\ plane.uNum > 0 /\ plane.vNum > 0 /\ plane.wNum > 0

(* ------------------------------ claims -------------------------------- *)

C2_ParallelValueIsOne ==
  (Done("SS2", "value") /\ input = ParallelExample) =>
    outcome.kind = "ok" /\ DistTied(outcome.distSq, <<4, 1>>)

\* C3: on the overlapping example value returns 0.0 without error and grad
\* raises the non-unique-branch error.
C3_OverlapValueZeroGradNonUnique ==
  (pc = "done" /\ card = "SS2" /\ input = OverlapExample) =>
    /\ (op = "value" => outcome.kind = "ok" /\ outcome.distSq[1] = 0)
    /\ (op = "grad" => outcome = Raise(NonUniqueBranch))

\* C4: on every multi-candidate card value performs no uniqueness check: where
\* two or more candidates tie at the minimum, value returns the minimum
\* candidate distance instead of raising.
C4_ValueToleratesTies ==
  (pc = "done" /\ op = "value" /\ card \in {"PT2", "SS2", "PT3"}
     /\ NonDegenerate
     /\ (card = "SS2" => ~SS2_segmentsIntersect(input))
     /\ TiedMinimum) =>
    /\ outcome.kind = "ok"
    /\ \A i \in 1..Len(CurrentCandidates) :
         ~DistLess(CurrentCandidates[i].distSq, outcome.distSq)

\* C5: grad of the segment-segment card raises the non-unique-branch error
\* whenever two or more of the four candidates tie at the minimum.
C5_SegmentGradRejectsTies ==
  (Done("SS2", "grad") /\ NonDegenerate /\ ~SS2_segmentsIntersect(input)
     /\ TiedMinimum) =>
    outcome = Raise(NonUniqueBranch)

\* C6: grad of the 3D point-triangle card raises the non-unique-branch error
\* whenever two or more collected candidates tie at the minimum.
C6_Triangle3GradRejectsTies ==
  (Done("PT3", "grad") /\ NonDegenerate /\ TiedMinimum) =>
    outcome = Raise(NonUniqueBranch)

\* The projection parameter of the current PS2 input is tNum / tDen.
PS2_tNum ==
  (input[1] - input[3]) * (input[5] - input[3])
    + (input[2] - input[4]) * (input[6] - input[4])

PS2_tDen == SegmentNormSquared(input, 3, 5)

\* C7: for the point-segment card, where the projection parameter is exactly 0
\* or exactly 1 on a non-degenerate segment, grad raises the branch-boundary
\* error and value returns the distance to the matching endpoint.
C7_BoundaryGradRaisesValueReturns ==
  (pc = "done" /\ card = "PS2" /\ NonDegenerate
     /\ (PS2_tNum = 0 \/ PS2_tNum = PS2_tDen)) =>
    /\ (op = "grad" => outcome = Raise(BranchBoundary))
    /\ (op = "value" =>
          /\ outcome.kind = "ok"
          /\ DistTied(outcome.distSq,
               IF PS2_tNum = 0
               THEN <<(input[1] - input[3]) * (input[1] - input[3])
                        + (input[2] - input[4]) * (input[2] - input[4]), 1>>
               ELSE <<(input[1] - input[5]) * (input[1] - input[5])
                        + (input[2] - input[6]) * (input[2] - input[6]), 1>>))

C7_Witness ==
  /\ Done("PS2", "grad") /\ NonDegenerate /\ PS2_tNum = PS2_tDen
  /\ outcome.error = BranchBoundary

\* C8: on every card value fails only for non-finite input or a structurally
\* degenerate primitive; on finite non-degenerate input it returns a distance.
C8_ValueOnlyFailsOnDegenerate ==
  (pc = "done" /\ op = "value" /\ assertFiniteValues(input) = "" /\ NonDegenerate) =>
    outcome.kind = "ok"

\* C9: grad of the 3D card raises the singular-distance error when the point
\* lies on the triangle's plane with its projection strictly inside.
C9_OnPlaneGradRaisesSingular ==
  (Done("PT3", "grad") /\ OnPlaneStrictlyInside) =>
    outcome = Raise(SingularDistance)

\* C10: value of the 3D card on a point of the triangle's plane whose projection
\* is inside the triangle is the interior distance 0, not an edge distance.
C10_OnPlaneValueIsZero ==
  (Done("PT3", "value") /\ OnPlaneStrictlyInside) =>
    outcome.kind = "ok" /\ outcome.distSq[1] = 0

\* Some segment the current card is built on has start = end.
HasDegenerateSegment ==
  /\ FiniteCall
  /\ IF card = "PS2" THEN SegmentNormSquared(input, 3, 5) = 0
     ELSE IF card = "PT2"
     THEN \/ SegmentNormSquared(input, 3, 5) = 0
          \/ SegmentNormSquared(input, 5, 7) = 0
          \/ SegmentNormSquared(input, 7, 3) = 0
     ELSE IF card = "SS2"
     THEN SegmentNormSquared(input, 1, 3) = 0 \/ SegmentNormSquared(input, 5, 7) = 0
     ELSE \/ parameters.vertexA = parameters.vertexB
          \/ parameters.vertexB = parameters.vertexC
          \/ parameters.vertexC = parameters.vertexA

\* C11: on every card, where some segment of the shape has start = end (and
\* all coordinates are finite), value and grad both raise the
\* degenerate-geometry error.
C11_DegenerateSegmentRaisesDegenerate ==
  (pc = "done" /\ op \in {"value", "grad"} /\ HasDegenerateSegment) =>
    outcome = Raise(DegenerateGeometry)

\* C12: value and grad raise the invalid-input error whenever a coordinate
\* they consume is not finite, the vertex coordinates of the 3D card's triangle
\* parameters included.
C12_NonFiniteRaisesInvalidInput ==
  (pc = "done" /\ op \in {"value", "grad"} /\ ~FiniteCall) =>
    outcome = Raise(InvalidInput)

\* The x-indices, in the input vector, of the query point, the segment start
\* and the segment end of candidate k of the current card (PT2: ab, bc, ca;
\* SS2: a0->B, a1->B, b0->A, b1->A).
CandidatePoints(k) ==
  IF card = "PT2"
  THEN <<<<1, 3, 5>>, <<1, 5, 7>>, <<1, 7, 3>>>>[k]
  ELSE <<<<1, 5, 7>>, <<3, 5, 7>>, <<5, 1, 3>>, <<7, 1, 3>>>>[k]

\* The 6-component point-segment result of candidate k on the current input.
CandidatePointSegment(k) ==
  LET q == CandidatePoints(k)[1]
      a == CandidatePoints(k)[2]
      b == CandidatePoints(k)[3]
  IN IF card = "PT2"
     THEN PT2_pointSegmentDistanceAndGradient(input[q], input[q + 1], input[a],
                                              input[a + 1], input[b], input[b + 1])
     ELSE SS2_pointSegmentDistanceAndGradient(input[q], input[q + 1], input[a],
                                              input[a + 1], input[b], input[b + 1])

\* g scattered to the places of the points q (query), a (start), b (end).
Scattered(g, q, a, b) ==
  [i \in 1..8 |->
     IF i = q THEN g[1] ELSE IF i = q + 1 THEN g[2]
     ELSE IF i = a THEN g[3] ELSE IF i = a + 1 THEN g[4]
     ELSE IF i = b THEN g[5] ELSE IF i = b + 1 THEN g[6]
     ELSE 0]

\* C13: every candidate of the 2D point-triangle and segment-segment cards
\* carries the 6-component point-segment gradient at the global indices of its
\* query point, segment start and segment end, and exactly 0 in the two
\* components of the point it does not involve; a returned gradient is the
\* selected candidate's.
C13_CandidateGradientIsScattered ==
  (pc = "done" /\ op = "grad" /\ card \in {"PT2", "SS2"} /\ FiniteCall) =>
    \A k \in 1..Len(CurrentCandidates) :
      CurrentCandidates[k].err = "" =>
        LET pts == CandidatePoints(k)
            other == CHOOSE x \in {1, 3, 5, 7} : x \notin {pts[1], pts[2], pts[3]}
            expected == Scattered(CandidatePointSegment(k).gradNum,
                                  pts[1], pts[2], pts[3])
        IN /\ CurrentCandidates[k].gradNum = expected
           /\ CurrentCandidates[k].gradNum[other] = 0
           /\ CurrentCandidates[k].gradNum[other + 1] = 0
           /\ CurrentCandidates[k].gradDen = CandidatePointSegment(k).gradDen
           /\ CurrentCandidates[k].gradRad = CandidatePointSegment(k).gradRad
           /\ (outcome.kind = "ok" /\ outcome.index = k =>
                 outcome.gradNum = expected)

\* grad of the point-triangle card returned the gradient of edge ca, which is
\* not zero at the query point, at c and at a.
C13_Witness ==
  /\ Done("PT2", "grad") /\ outcome.kind = "ok" /\ outcome.index = 3
  /\ outcome.gradNum[5] = 0 /\ outcome.gradNum[6] = 0
  /\ \E i \in {1, 2} : outcome.gradNum[i] # 0
  /\ \E i \in {3, 4} : outcome.gradNum[i] # 0
  /\ \E i \in {7, 8} : outcome.gradNum[i] # 0

\* Which side of the line through (v[i], v[i+1]) and (v[j], v[j+1]) the point
\* (v[k], v[k+1]) lies on: 1, -1, or 0 on the line.
SideOf(v, i, j, k) ==
  Sign((v[j] - v[i]) * (v[k + 1] - v[i + 1]) - (v[j + 1] - v[i + 1]) * (v[k] - v[i]))

\* The two segments of the current SS2 input strictly cross: the endpoints of
\* each lie strictly on opposite sides of the other's line.
StrictlyCross ==
  /\ SideOf(input, 1, 3, 5) * SideOf(input, 1, 3, 7) = -1
  /\ SideOf(input, 5, 7, 1) * SideOf(input, 5, 7, 3) = -1

\* C14: on non-degenerate segments that strictly cross, value of the
\* segment-segment card returns exactly 0 whatever the candidate guards would
\* say and grad raises an error; on segments that do not strictly cross, the
\* four candidates are evaluated: the first guard failure is raised, and
\* otherwise the result is that of one of the four candidates.
C14_StrictCrossingShortcut ==
  (pc = "done" /\ card = "SS2" /\ op \in {"value", "grad"} /\ NonDegenerate) =>
    IF StrictlyCross
    THEN /\ (op = "value" => outcome = ReturnValue(<<0, 1>>, 0))
         /\ (op = "grad" => outcome.kind = "error")
    ELSE LET candidates == SS2_buildCandidates(input)
         IN IF FirstError(candidates) # ""
            THEN outcome = Raise(FirstError(candidates))
            ELSE /\ outcome.kind = "ok"
                 /\ outcome.index \in 1..4
                 /\ (op = "value" =>
                       outcome.distSq = candidates[outcome.index].distSq)
                 /\ (op = "grad" =>
                       outcome.gradNum = candidates[outcome.index].gradNum)

\* value returned 0 on strictly crossing segments one of whose candidates fails
\* a guard.
C14_Witness ==
  /\ Done("SS2", "value") /\ NonDegenerate /\ StrictlyCross
  /\ FirstError(SS2_buildCandidates(input)) # ""
  /\ outcome.kind = "ok" /\ outcome.distSq[1] = 0

\* C15: domain.sample of the segment-segment card returns only inputs that
\* are non-intersecting and have a unique minimum candidate passing every
\* candidate guard (a sample still invalid after the last nudge makes the call
\* raise instead of return).
C15_SamplerReturnsOnlyValidInputs ==
  sampler.pc = "returned" /\ sampler.card = "SS2" =>
    \A i \in 1..Len(sampler.sampledInputs) :
      SS2_sampleAttempt(sampler.sampledInputs[i]) = ""

\* C16: domain.sample is deterministic in its arguments: a call of a card's
\* sampler that ends after an earlier call of the same sampler with the same
\* seed and the same sampleCount ends the same way, with the identical sequence
\* of inputs, whatever calls were made in between.
C16_SameSeedSameSamples ==
  /\ sampler.pc \in {"returned", "raised"}
  /\ earlier.kind = "sample"
  /\ earlier.call = <<sampler.card, sampler.seed, sampler.sampleCount>>
  => earlier.result = <<sampler.pc, sampler.sampledInputs>>

\* The segment-segment sampler returns two inputs, nudged on the way, a second
\* time for the same seed.
C16_Witness ==
  /\ sampler.pc = "returned"
  /\ sampler.card = "SS2"
  /\ Len(sampler.sampledInputs) >= 2
  /\ sampler.adjustmentStep > 0
  /\ earlier.kind = "sample"
  /\ earlier.call = <<sampler.card, sampler.seed, sampler.sampleCount>>

C18_ValueIsNonNegative ==
  pc = "done" /\ op = "value" /\ outcome.kind = "ok" =>
    /\ outcome.distSq[1] # NaN
    /\ outcome.distSq[1] >= 0
    /\ outcome.distSq[2] > 0

\* C19: on each of the four cards every call of hess and every call of hvp
\* raises the not-implemented error of that function; none returns a value.
C19_HessAndHvpRaiseNotImplemented ==
  pc = "done" /\ op \in {"hess", "hvp"} =>
    /\ outcome.kind = "error"
    /\ outcome.error =
         (IF op = "hess" THEN "hess is not implemented." ELSE "hvp is not implemented.")

\* hvp has been called on the 3D card.
C19_Witness == pc = "done" /\ op = "hvp" /\ card = "PT3" /\ outcome.kind = "error"

\* The test files of a catalog that lie in no directory named templates.
TestFilesOutsideTemplates(files) ==
  {f \in files : /\ f[Len(f)] = TEST_FILE_NAME
                 /\ \A i \in 1..(Len(f) - 1) : f[i] \notin EXCLUDED_DIRECTORY_NAMES}

\* The run has ended and every test module could be imported.
RunnerEnded == runner.pc \in {"passed", "failed"} /\ runner.thrown # "import"

\* The report is written, holds one entry per test file outside templates in
\* sorted path order, its counts add up, and the run failed iff some entry is
\* a FAIL.
ReportedEveryCheck ==
  LET entries == runner.report.entries
      failed == {i \in 1..Len(entries) : entries[i].status = "FAIL"}
  IN /\ runner.report.written
     /\ {entries[i].testFilePath : i \in 1..Len(entries)} =
          TestFilesOutsideTemplates(runner.files)
     /\ \A i \in 1..(Len(entries) - 1) :
          PathBefore(entries[i].testFilePath, entries[i + 1].testFilePath)
     /\ runner.report.totalCheckCount = Len(entries)
     /\ runner.report.failedCheckCount = Cardinality(failed)
     /\ runner.report.totalCheckCount =
          runner.report.passedCheckCount + runner.report.failedCheckCount
     /\ (runner.pc = "failed") = (failed # {})

\* C20 as stated: for every catalog and every pattern of check() outcomes
\* (pass, throw, missing export) the runner checks every test.ts outside
\* templates once, in sorted path order, a failure not stopping later checks,
\* writes the report before it signals failure, with one entry per test file
\* and total = passed + failed, and fails iff at least one check failed.
C20_AsStated == RunnerEnded => ReportedEveryCheck

\* C20 as the code has it: the above holds when at least one test.ts is found
\* outside templates; when none is found the run fails before any report is
\* written, with no check failed.
C20_RunnerReportsEveryCheck ==
  RunnerEnded =>
    IF TestFilesOutsideTemplates(runner.files) # {} THEN ReportedEveryCheck
    ELSE runner.pc = "failed" /\ ~runner.report.written /\ runner.checkEntries = <<>>

\* A run over three test files ends failed, with the first check thrown, the
\* second passed and the third missing its export, in a catalog that also
\* holds test files under templates.
C20_Witness ==
  /\ runner.pc = "failed"
  /\ runner.report.written
  /\ Len(runner.report.entries) = 3
  /\ runner.report.entries[1].errorMessage = "error.message"
  /\ runner.report.entries[2].status = "PASS"
  /\ runner.report.entries[3].errorMessage = "missing export: check"
  /\ runner.files = CatalogUniverse

\* Candidate k of the current PT2 or SS2 input is the active one: its
\* point-segment distance is positive and strictly below (not tied with) the
\* point-segment distance of every other candidate.
ActiveCandidate(k) ==
  \A j \in 1..Len(CurrentCandidates) :
    /\ CandidatePointSegment(j).err = ""
    /\ j # k => /\ DistLess(CandidatePointSegment(k).distSq, CandidatePointSegment(j).distSq)
                /\ ~DistTied(CandidatePointSegment(k).distSq, CandidatePointSegment(j).distSq)

\* The projection parameter of candidate k is farther than the margin from 0
\* and from 1.
OwnMarginHolds(k) ==
  assertProjectionBoundaryMargin(CandidatePointSegment(k).tNum,
                                 CandidatePointSegment(k).tDen) = ""

\* C21: for the 2D point-triangle and segment-segment cards, when the minimum
\* candidate is unique and its own positive-distance and boundary-margin guards
\* hold, grad returns that candidate's gradient, whatever the projection
\* parameters of the other candidates are.
C21_OnlyActiveGuardsCanFail ==
  (pc = "done" /\ op = "grad" /\ card \in {"PT2", "SS2"} /\ NonDegenerate
     /\ (card = "SS2" => ~SS2_segmentsIntersect(input))) =>
    \A k \in 1..Len(CurrentCandidates) :
      (ActiveCandidate(k) /\ OwnMarginHolds(k)) =>
        /\ outcome.kind = "ok"
        /\ outcome.index = k
        /\ outcome.gradNum = Scattered(CandidatePointSegment(k).gradNum,
                                       CandidatePoints(k)[1], CandidatePoints(k)[2],
                                       CandidatePoints(k)[3])

\* Numerator and denominator of the projection parameter of the point at
\* x-index q of v on the segment from the point at a to the point at b.
ProjectionNum(v, q, a, b) ==
  (v[q] - v[a]) * (v[b] - v[a]) + (v[q + 1] - v[a + 1]) * (v[b + 1] - v[a + 1])

ProjectionDen(v, a, b) == SegmentNormSquared(v, a, b)

\* The squared distance from the point at q to the foot of its perpendicular on
\* the line through a and b, by Lagrange's identity
\* |w|^2 |d|^2 - (w.d)^2 over |d|^2.
FootDistSq(v, q, a, b) ==
  <<SegmentNormSquared(v, a, q) * SegmentNormSquared(v, a, b)
      - ProjectionNum(v, q, a, b) * ProjectionNum(v, q, a, b),
    SegmentNormSquared(v, a, b)>>

\* The squared Euclidean distance from the point at q to the closed segment
\* from a to b (of positive length): the least of the distances to the two
\* endpoints and, where the foot of the perpendicular lies on the segment, to
\* that foot.
EuclideanDistSq(v, q, a, b) ==
  LET toStart == <<SegmentNormSquared(v, a, q), 1>>
      toEnd == <<SegmentNormSquared(v, b, q), 1>>
      footOnSegment == /\ ProjectionNum(v, q, a, b) >= 0
                       /\ ProjectionNum(v, q, a, b) <= ProjectionDen(v, a, b)
      nearerEnd == IF DistLess(toEnd, toStart) THEN toEnd ELSE toStart
  IN IF footOnSegment /\ DistLess(FootDistSq(v, q, a, b), nearerEnd)
     THEN FootDistSq(v, q, a, b)
     ELSE nearerEnd

\* The Euclidean distance of candidate k of the current PT2 or SS2 input.
CandidateEuclideanDistSq(k) ==
  EuclideanDistSq(input, CandidatePoints(k)[1], CandidatePoints(k)[2],
                  CandidatePoints(k)[3])

\* Candidate k is at the minimum distance of the current input.
AtMinimum(k) ==
  \A j \in 1..Len(CurrentCandidates) :
    ~DistLess(CandidateEuclideanDistSq(j), CandidateEuclideanDistSq(k))

\* Candidate k fails the positive-distance guard or the boundary-margin guard.
ViolatesOwnGuard(k) ==
  \/ DistAtMostThreshold(CandidateEuclideanDistSq(k))
  \/ assertProjectionBoundaryMargin(
       ProjectionNum(input, CandidatePoints(k)[1], CandidatePoints(k)[2],
                     CandidatePoints(k)[3]),
       ProjectionDen(input, CandidatePoints(k)[2], CandidatePoints(k)[3])) # ""

\* C22: grad checks uniqueness of the minimum before the guards of the active
\* branch: on a finite non-degenerate input of the 2D point-triangle or
\* segment-segment card (segments not crossing) where two candidates share the
\* minimum distance and one of them violates its boundary-margin or
\* positive-distance guard, grad raises the non-unique-branch error.
C22_TieReportedBeforeGuards ==
  (pc = "done" /\ op = "grad" /\ card \in {"PT2", "SS2"} /\ NonDegenerate
     /\ (card = "SS2" => ~SS2_segmentsIntersect(input))
     /\ \E j, k \in 1..Len(CurrentCandidates) :
          /\ j # k /\ AtMinimum(j) /\ AtMinimum(k)
          /\ ViolatesOwnGuard(j)) =>
    outcome = Raise(NonUniqueBranch)

\* Two non-negative rationals <<n, m>> with small terms are equal.
SameRational(p, q) == p[1] * q[2] = q[1] * p[2]

\* The cross product of (b - a) and (q - a) for the points at q, a, b of v.
CrossNumerator(v, q, a, b) ==
  (v[b] - v[a]) * (v[q + 1] - v[a + 1]) - (v[b + 1] - v[a + 1]) * (v[q] - v[a])

\* The distance the three-branch rule assigns to the point at q and the segment
\* from a to b: |p - start| when t <= 0, |p - end| when t >= 1, and
\* |cross| / |end - start| when 0 < t < 1, as a squared rational.
ThreeBranchDistSq(v, q, a, b) ==
  IF ProjectionNum(v, q, a, b) <= 0 THEN <<SegmentNormSquared(v, a, q), 1>>
  ELSE IF ProjectionNum(v, q, a, b) >= ProjectionDen(v, a, b)
  THEN <<SegmentNormSquared(v, b, q), 1>>
  ELSE <<CrossNumerator(v, q, a, b) * CrossNumerator(v, q, a, b),
         ProjectionDen(v, a, b)>>

\* The branch number of the three-branch rule (1 start, 2 end, 3 interior).
ThreeBranchKind(v, q, a, b) ==
  IF ProjectionNum(v, q, a, b) <= 0 THEN 1
  ELSE IF ProjectionNum(v, q, a, b) >= ProjectionDen(v, a, b) THEN 2
  ELSE 3

\* The stand-alone card returned the three-branch distance of its input, which
\* is the Euclidean distance to the closed segment.
StandAloneDistanceIsExact ==
  /\ outcome.kind = "ok"
  /\ outcome.index = ThreeBranchKind(input, 1, 3, 5)
  /\ SameRational(outcome.distSq, ThreeBranchDistSq(input, 1, 3, 5))
  /\ SameRational(outcome.distSq, EuclideanDistSq(input, 1, 3, 5))

\* The embedded primitive of candidate k returned the three-branch distance,
\* which is the Euclidean distance to the closed segment.
EmbeddedDistanceIsExact(k) ==
  /\ CandidatePointSegment(k).err = ""
  /\ SameRational(CandidatePointSegment(k).distSq,
                  ThreeBranchDistSq(input, CandidatePoints(k)[1],
                                    CandidatePoints(k)[2], CandidatePoints(k)[3]))
  /\ SameRational(CandidatePointSegment(k).distSq, CandidateEuclideanDistSq(k))

\* Candidate k of the current PT2 or SS2 input has a finite segment of positive
\* length.
CandidateSegmentIsValid(k) ==
  /\ FiniteCall
  /\ SegmentNormSquared(input, CandidatePoints(k)[2], CandidatePoints(k)[3]) > 0

GradN(v, q, a, b) ==
  <<-(v[b + 1] - v[a + 1]), v[b] - v[a], v[b + 1] - v[q + 1], v[q] - v[b],
    v[q + 1] - v[a + 1], v[a] - v[q]>>

\* gradV = [0, 0, -2dx, -2dy, 2dx, 2dy].
GradV(v, a, b) ==
  <<0, 0, -2 * (v[b] - v[a]), -2 * (v[b + 1] - v[a + 1]),
    2 * (v[b] - v[a]), 2 * (v[b + 1] - v[a + 1])>>

\* The gradient g (numerators gradNum over gradDen * sqrt(gradRad)) equals the
\* vector numerators / (divisor * sqrt(V)), V the squared length of segment
\* a-b in grid units.
GradientEquals(g, numerators, divisor, v, a, b) ==
  /\ g.gradRad = SegmentNormSquared(v, a, b)
  /\ \A i \in 1..6 : g.gradNum[i] * divisor = numerators[i] * g.gradDen

\* sign(N)/|direction| * gradN - (N^2/2) * |direction|^-3 * gradV.  With
\* coordinates x = grid/2: N = Ng/4, V = Vg/4, gradN = gradNg/2 and
\* gradV = gradVg/2, which gives (8 Vg sign gradNg - Ng^2 gradVg) / (8 Vg sqrt(Vg)).
InteriorGradientWithSquaredN(v, q, a, b) ==
  [i \in 1..6 |->
     8 * SegmentNormSquared(v, a, b) * Sign(CrossNumerator(v, q, a, b)) * GradN(v, q, a, b)[i]
       - CrossNumerator(v, q, a, b) * CrossNumerator(v, q, a, b) * GradV(v, a, b)[i]]

\* sign(N)/|direction| * gradN - (|N|/2) * |direction|^-3 * gradV, which is the
\* same in grid units: (2 Vg sign gradNg - |Ng| gradVg) / (2 Vg sqrt(Vg)).
InteriorGradientWithAbsoluteN(v, q, a, b) ==
  [i \in 1..6 |->
     2 * SegmentNormSquared(v, a, b) * Sign(CrossNumerator(v, q, a, b)) * GradN(v, q, a, b)[i]
       - Abs(CrossNumerator(v, q, a, b)) * GradV(v, a, b)[i]]

\* The embedded primitives of the triangle and segment-segment cards on the
\* six coordinates of the current point-segment input.
EmbeddedOfTriangle ==
  PT2_pointSegmentDistanceAndGradient(input[1], input[2], input[3], input[4],
                                      input[5], input[6])

EmbeddedOfSegments ==
  SS2_pointSegmentDistanceAndGradient(input[1], input[2], input[3], input[4],
                                      input[5], input[6])

\* The stand-alone card returned an interior-branch gradient.
InteriorGradientReturned ==
  Done("PS2", "grad") /\ outcome.kind = "ok" /\ outcome.index = 3

\* The stand-alone card and both embedded copies computed the same vector.
StandAloneEqualsEmbedded ==
  /\ EmbeddedOfTriangle.err = "" /\ EmbeddedOfSegments.err = ""
  /\ EmbeddedOfTriangle.gradRad = outcome.gradRad
  /\ EmbeddedOfSegments.gradRad = outcome.gradRad
  /\ \A i \in 1..6 :
       /\ EmbeddedOfTriangle.gradNum[i] * outcome.gradDen
            = outcome.gradNum[i] * EmbeddedOfTriangle.gradDen
       /\ EmbeddedOfSegments.gradNum[i] * outcome.gradDen
            = outcome.gradNum[i] * EmbeddedOfSegments.gradDen

\* C24 (as stated): in the interior branch the returned gradient is
\* sign(N)/|direction| * gradN - (N^2/2) * |direction|^-3 * gradV, and the
\* stand-alone card and the embedded primitive compute the same vector.
C24_AsStated ==
  InteriorGradientReturned =>
    /\ GradientEquals(outcome, InteriorGradientWithSquaredN(input, 1, 3, 5),
                      8 * SegmentNormSquared(input, 3, 5), input, 3, 5)
    /\ StandAloneEqualsEmbedded

\* C24 (amended): in the interior branch the returned gradient is
\* sign(N)/|direction| * gradN - (|N|/2) * |direction|^-3 * gradV, and the
\* stand-alone card and the embedded primitive compute the same vector.
C24_InteriorGradientFormula ==
  InteriorGradientReturned =>
    /\ GradientEquals(outcome, InteriorGradientWithAbsoluteN(input, 1, 3, 5),
                      2 * SegmentNormSquared(input, 3, 5), input, 3, 5)
    /\ StandAloneEqualsEmbedded

\* An interior-branch gradient was returned where |N| is not 1 (4 in grid
\* units) and the segment is not axis-parallel, so that |N|/2 and N^2/2 differ
\* and both components of gradV count.
C24_Witness ==
  /\ InteriorGradientReturned
  /\ Abs(CrossNumerator(input, 1, 3, 5)) # 4
  /\ input[5] # input[3] /\ input[6] # input[4]

\* The normal (b - a) x (c - a) of the current triangle parameters.
TriangleNormal ==
  crossProduct(subtractVectors(parameters.vertexB, parameters.vertexA),
               subtractVectors(parameters.vertexC, parameters.vertexA))

\* (end - start) x (p - start) . normal: non-negative exactly where the plane
\* projection of the current point is on the inner side of the edge.
EdgeSide(start, end) ==
  dotProduct(crossProduct(subtractVectors(end, start),
                          subtractVectors(pointFromInput(input), start)),
             TriangleNormal)

\* The plane projection of the current point has barycentric coordinates
\* u, v, w all >= 0, i.e. it lies in the closed triangle.
ProjectionInClosedTriangle ==
  /\ EdgeSide(parameters.vertexA, parameters.vertexB) >= 0
  /\ EdgeSide(parameters.vertexB, parameters.vertexC) >= 0
  /\ EdgeSide(parameters.vertexC, parameters.vertexA) >= 0

\* (p - a) . normal, the signed distance times the normal's length.
SignedDistanceTimesNorm ==
  dotProduct(subtractVectors(pointFromInput(input), parameters.vertexA), TriangleNormal)

\* The three edge candidates ab, bc, ca of the current PT3 input.
EdgeCandidates ==
  <<PT3_pointSegmentDistanceAndPointGradient(pointFromInput(input),
      parameters.vertexA, parameters.vertexB),
    PT3_pointSegmentDistanceAndPointGradient(pointFromInput(input),
      parameters.vertexB, parameters.vertexC),
    PT3_pointSegmentDistanceAndPointGradient(pointFromInput(input),
      parameters.vertexC, parameters.vertexA)>>

\* The interior candidate: distance |signed distance|, gradient
\* sign(signed distance) times the unit normal.
InteriorCandidateIs(candidate) ==
  /\ candidate.err = ""
  /\ SameRational(candidate.distSq,
                  <<SignedDistanceTimesNorm * SignedDistanceTimesNorm,
                    dotProduct(TriangleNormal, TriangleNormal)>>)
  /\ candidate.gradNum = scaleVector(TriangleNormal, Sign(SignedDistanceTimesNorm))
  /\ candidate.gradDen = 1
  /\ candidate.gradRad = dotProduct(TriangleNormal, TriangleNormal)

\* What value or grad returns from the edge candidates alone.
FromEdgesOnly ==
  IF op = "value" THEN PT3_valueOf(EdgeCandidates) ELSE PT3_gradOf(EdgeCandidates)

C26_FlatTriangleRaisesDegenerate ==
  (pc = "done" /\ card = "PT2" /\ op \in {"value", "grad"} /\ FiniteCall
     /\ SegmentNormSquared(input, 3, 5) > 0
     /\ SegmentNormSquared(input, 5, 7) > 0
     /\ SegmentNormSquared(input, 7, 3) > 0
     /\ DoubledArea(input) = 0) =>
    outcome = Raise(DegenerateGeometry)

\* The result of the other of value and grad on the current PT2 input.
OtherCallOnSameInput ==
  IF op = "value" THEN PT2_grad(input) ELSE PT2_value(input)

\* The result of value, and of grad, on the current PT2 input.
ValueOnSameInput == IF op = "value" THEN outcome ELSE PT2_value(input)

GradOnSameInput == IF op = "grad" THEN outcome ELSE PT2_grad(input)

AxisSum(g, first, n) ==
  IF n = 6 THEN g[first] + g[first + 2] + g[first + 4]
  ELSE g[first] + g[first + 2] + g[first + 4] + g[first + 6]

\* The x-components of g sum to 0 and so do its y-components.
TranslationInvariant(g, n) == AxisSum(g, 1, n) = 0 /\ AxisSum(g, 2, n) = 0

\* C28: every gradient returned by the point-segment card has x-components
\* summing to 0 and y-components summing to 0, in each of its three branches
\* (gradN and gradV do per axis); so has every 6-component gradient of the
\* embedded primitive and every zero-extended 8-component gradient returned by
\* the triangle and segment-segment cards.
C28_GradientIsTranslationInvariant ==
  /\ (Done("PS2", "grad") /\ outcome.kind = "ok") =>
       /\ outcome.index \in 1..3
       /\ TranslationInvariant(outcome.gradNum, 6)
       /\ TranslationInvariant(GradN(input, 1, 3, 5), 6)
       /\ TranslationInvariant(GradV(input, 3, 5), 6)
  /\ (pc = "done" /\ op = "grad" /\ card \in {"PT2", "SS2"} /\ FiniteCall) =>
       /\ \A k \in 1..Len(CurrentCandidates) :
            CandidatePointSegment(k).err = "" =>
              TranslationInvariant(CandidatePointSegment(k).gradNum, 6)
       /\ outcome.kind = "ok" => TranslationInvariant(outcome.gradNum, 8)

\* The point-segment card returned a far-endpoint gradient with both point
\* components non-zero.
C28_Witness ==
  /\ Done("PS2", "grad") /\ outcome.kind = "ok" /\ outcome.index = 2
  /\ outcome.gradNum[1] # 0 /\ outcome.gradNum[2] # 0

\* One call of domain.sample of the segment-segment card, run to its end.
SegmentSamplerCall ==
  \E seed \in -1..MaxSeed, sampleCount \in -1..MaxSamples :
    SampleCallWith("SS2", seed, sampleCount)

SegmentSamplerNext ==
  \/ SegmentSamplerCall
  \/ SS2SampleDraw
  \/ SS2SampleAdjust
  \/ SS2SamplePush
  \/ SampleReturn

\* The call is synchronous: a statement that can run does run.
SegmentSamplerSpec ==
  SamplerInit /\ [][SegmentSamplerNext]_vars /\ WF_vars(SegmentSamplerNext)

\* A call of the segment-segment sampler is in progress or has ended.
InSegmentSampler == sampler.card = "SS2" /\ sampler.pc # "idle"

\* At most 4 attempts: the adjustment step never passes 4, and one input has
\* been appended per finished index; a returned list has sampleCount entries and
\* a negative sampleCount raises with nothing generated.
SegmentSamplerCounts ==
  InSegmentSampler =>
    /\ sampler.adjustmentStep \in 0..4
    /\ sampler.pc \in {"loop", "adjust", "returned"} =>
         /\ sampler.sampleCount >= 0
         /\ Len(sampler.sampledInputs) = sampler.sampleIndex
         /\ sampler.sampleIndex <= sampler.sampleCount
    /\ sampler.pc = "returned" => Len(sampler.sampledInputs) = sampler.sampleCount
    /\ sampler.pc = "raised" <=> sampler.sampleCount < 0
    /\ sampler.pc = "raised" =>
         /\ sampler.sampledInputs = <<>>
         /\ sampler.currentSeed = ToUint32(sampler.seed)

\* A failed attempt changes every coordinate of segment B and leaves a0 and a1
\* alone; a finished index appends exactly its candidateInput.
SegmentSamplerStep ==
  (InSegmentSampler /\ sampler.pc = "adjust") =>
    /\ sampler'.pc = "adjust" =>
         /\ sampler'.adjustmentStep = sampler.adjustmentStep + 1
         /\ sampler'.sampledInputs = sampler.sampledInputs
         /\ \A i \in 1..4 : sampler'.candidateInput[i] = sampler.candidateInput[i]
         /\ \A i \in 5..8 : sampler'.candidateInput[i] # sampler.candidateInput[i]
    /\ sampler'.pc = "loop" =>
         /\ sampler'.sampledInputs = Append(sampler.sampledInputs, sampler.candidateInput)
         /\ sampler'.sampleIndex = sampler.sampleIndex + 1

\* C29: in the segment-segment sampler the adjustment loop of every sample
\* index makes at most 4 validation attempts and then ends, whatever their
\* outcomes; a failed attempt changes only the four coordinates of segment B;
\* exactly one input is appended per index, so that the call returns exactly
\* sampleCount entries, and a negative sampleCount raises before anything is
\* generated.
C29_SegmentSamplerTerminates ==
  /\ []SegmentSamplerCounts
  /\ [][SegmentSamplerStep]_vars
  /\ (InSegmentSampler /\ sampler.pc = "adjust") ~> (sampler.pc = "loop")
  /\ (InSegmentSampler /\ sampler.pc = "loop") ~> (sampler.pc = "returned")

\* The segment-segment sampler returned after an index used up all four
\* attempts.
C29_Witness ==
  /\ InSegmentSampler /\ sampler.pc = "returned"
  /\ sampler.adjustmentStep = 4
  /\ Len(sampler.sampledInputs) = sampler.sampleCount
  /\ sampler.sampleCount >= 1

\* s, kept as <<high, low>>, is an integer of [0, 2^32).
InWordRange(s) == s[1] \in 0..(HALF_WORD - 1) /\ s[2] \in 0..(HALF_WORD - 1)

\* floor((MULTIPLIER * s + INCREMENT) / 2^32), multiplied out by halves.
UpdateHighWord(s) ==
  (LINEAR_CONGRUENTIAL_MULTIPLIER \div HALF_WORD) * s[1]
    + (((LINEAR_CONGRUENTIAL_MULTIPLIER \div HALF_WORD) * s[2]
          + (LINEAR_CONGRUENTIAL_MULTIPLIER % HALF_WORD) * s[1]
          + (LINEAR_CONGRUENTIAL_INCREMENT \div HALF_WORD)
          + (((LINEAR_CONGRUENTIAL_MULTIPLIER % HALF_WORD) * s[2]
                + (LINEAR_CONGRUENTIAL_INCREMENT % HALF_WORD)) \div HALF_WORD))
        \div HALF_WORD)

\* s modulo p, for p below 2^15.
WordModulo(s, p) == ((s[1] % p) * (HALF_WORD % p) + s[2]) % p

\* MULTIPLIER * s + INCREMENT = high * 2^32 + next modulo p.
UpdateHoldsModulo(s, high, next, p) ==
  ((LINEAR_CONGRUENTIAL_MULTIPLIER % p) * WordModulo(s, p)
     + (LINEAR_CONGRUENTIAL_INCREMENT % p)) % p
    = ((high % p) * (((HALF_WORD % p) * (HALF_WORD % p)) % p) + WordModulo(next, p)) % p

\* next is (MULTIPLIER * s + INCREMENT) mod 2^32 and the sum is below 2^53, so
\* that every step of the double-precision update is exact: the sum equals
\* high * 2^32 + next with high < 2^21 and next < 2^32, which holds exactly
\* since it holds modulo four primes whose product exceeds 2^53.
ExactUpdate(s, next) ==
  /\ InWordRange(next)
  /\ UpdateHighWord(s) >= 0
  /\ UpdateHighWord(s) < 2^21
  /\ \A p \in {32749, 32719, 32717, 32713} :
       UpdateHoldsModulo(s, UpdateHighWord(s), next, p)

\* The generator state at the start of a call is seed >>> 0: the seed itself
\* when it is not negative, and 2^32 + seed when it is.
StartsAsUnsignedSeed ==
  IF sampler.seed >= 0
  THEN sampler.seed = ToUint32(sampler.seed)[1] * HALF_WORD + ToUint32(sampler.seed)[2]
  ELSE -sampler.seed = (HALF_WORD - 1 - ToUint32(sampler.seed)[1]) * HALF_WORD
                         + (HALF_WORD - ToUint32(sampler.seed)[2])

\* The greatest generator state, 2^32 - 1.
GreatestState == <<HALF_WORD - 1, HALF_WORD - 1>>

\* The generator states a sampler call in progress holds and the next eight it
\* would draw, with the greatest state added.
GeneratorStates ==
  {sampler.currentSeed, GreatestState}
    \cup {DrawStates(sampler.currentSeed, 8)[k] : k \in 1..8}

\* C30: in every sampler the generator state is an integer in [0, 2^32): it
\* starts as seed >>> 0, and from every state s the sum
\* 1664525 * s + 1013904223 is below 2^53, the update is the exact
\* (1664525 * s + 1013904223) mod 2^32, and the unit value s / 2^32 is in
\* [0, 1) (its third, floor(3 s / 2^32), is 0, 1 or 2).
C30_GeneratorStateIsUint32 ==
  sampler.pc # "idle" =>
    /\ InWordRange(ToUint32(sampler.seed))
    /\ StartsAsUnsignedSeed
    /\ (sampler.pc = "loop" /\ sampler.sampleIndex = 0) =>
         sampler.currentSeed = ToUint32(sampler.seed)
    /\ \A s \in GeneratorStates :
         /\ InWordRange(s)
         /\ ExactUpdate(s, nextSeed(s))
         /\ UniformLevel(s) \in 0..(DRAW_LEVELS - 1)

\* A sampler call that started from the seed -1 (state 2^32 - 1) has drawn
\* values and returned.
C30_Witness ==
  /\ sampler.pc = "returned" /\ sampler.seed = -1
  /\ Len(sampler.sampledInputs) >= 1
  /\ sampler.currentSeed # ToUint32(sampler.seed)

=============================================================================
